---------------------------- MODULE Spec2Model ----------------------------
(***************************************************************************)
(* A model of the jimmy note converter: the converter framework            *)
(* (converter.py), the markdown link extraction (common.py and             *)
(* markdown_lib/common.py) and the TiddlyWiki converter                    *)
(* (formats/tiddlywiki.py).                                                *)
(*                                                                         *)
(* Each part of the program has its own variables and its own              *)
(* specification; the variables of the other parts stay idle in it.        *)
(*                                                                         *)
(* Strings the code inspects are sequences: a file name is a sequence of   *)
(* dot-free chunks and "." separators (<<"a", ".", "tar", ".", "gz">>), a  *)
(* tag string is a sequence of characters.                                 *)
(***************************************************************************)
EXTENDS Integers, Sequences, FiniteSets, TLC

VARIABLES
    \* remove_empty_notebooks
    tree0,            \* the tree as the converter built it
    root_notebook,    \* the tree remove_empty_notebooks works on
    prune_pc,
    \* prepare_input and has_valid_format on one input
    in_conv,          \* the converter (its class attributes)
    input_,           \* the input path: its name and what is on disk there
    root_path,        \* what prepare_input returned or raised
    in_valid,         \* what has_valid_format returned
    \* convert_multiple
    cm_conv,          \* the converter
    files_or_folders, \* the inputs
    input_index,      \* the index (from 0) of the next input
    cm_root_notebook, \* self.root_notebook
    cm_root_path,     \* self.root_path
    notebooks,        \* the list convert_multiple builds and returns
    outcome,          \* what happened to each input so far
    warnings,         \* the warnings logged, as the indexes of their inputs
    next_id,          \* the identity of the next object constructed
    cm_pc,            \* "loop", "returned" or "raised"
    \* DefaultConverter.convert
    d_input,          \* the file or folder to convert
    d_root_notebook,  \* self.root_notebook
    d_log,            \* the debug log
    d_pc,             \* "start", "done" or "raised"
    \* split_tags (formats/tiddlywiki.py)
    tag_string,       \* the argument, a sequence of characters
    final_tags,       \* None, or Some(the tags returned)
    resplit,          \* None, or Some([tag, tags]): split_tags of a returned tag
    \* Converter.convert_json (formats/tiddlywiki.py)
    file_dict,        \* the tiddlers of the JSON file
    tiddler_index,    \* the position (from 1) of the next tiddler
    tw_child_notes,   \* self.root_notebook.child_notes
    tw_warnings,      \* the warnings logged
    resource_folder,  \* the names of the files written to self.resource_folder
    tw_raised,        \* None, or Some(the exception that left convert_json)
    tw_pc,            \* "loop", "returned" or "raised"
    \* get_markdown_links (markdown_lib/common.py and common.py)
    MD,               \* markdown_lib.common.MD: None before its images and links
                      \* attributes exist, or Some([images, links])
    legacy_MD,        \* common.MD, likewise
    links_call,       \* None, or Some(the last call: its module, text and result)
    \* get_inline_tags (markdown_lib/common.py and common.py)
    it_text,          \* the text, a sequence of characters
    start_characters, \* the marker characters
    inline_tags,      \* None, or Some(the list returned)
    \* Synology Note Station: convert_note (formats/synology_note_station.py)
    syn_notes,        \* the notes of the manifest, in its order
    syn_index,        \* the position (from 1) of the next note
    syn_child_notes,  \* the child_notes of each parent notebook
    syn_warnings,     \* the warnings logged
    \* the legacy entry point: main (joplin_custom_importer.py)
    args_input,       \* args.input
    args_app,         \* args.app
    args_dry_run,     \* args.dry_run
    main_pc,          \* "start", "convert", "done" or "raised"
    single_input_index, \* the position (from 1) of the next input
    main_log,         \* what main has done so far, in order
    \* the Notion converter: convert_directory (formats/notion.py)
    n_items,          \* the items of the exported directory, in the order of iterdir()
    n_index,          \* the position (from 1) of the next item
    n_child_notes,    \* parent_notebook.child_notes
    n_child_notebooks, \* parent_notebook.child_notebooks
    n_MD,             \* common.MD
    n_raised,         \* None, or Some(the exception that left convert_directory)
    n_pc,             \* "loop", "returned" or "raised"
    \* DefaultConverter.handle_markdown_links (converter.py)
    h_siblings,       \* what lies in `path`, the folder of the converted file
    h_body,           \* the body
    h_links,          \* markdown_lib.common.get_markdown_links(body)
    h_index,          \* the position (from 1) of the next link
    h_resources,      \* resources
    h_note_links,     \* note_links
    h_pc,             \* "loop" or "returned"
    \* the walk of DefaultConverter.convert_file_or_folder, call by call
    w_input,          \* the folder given to convert
    w_root_notebook,  \* self.root_notebook
    w_stack,          \* the calls of convert_file_or_folder on folders, the innermost last
    w_events,         \* what was done so far, in order
    w_pc,             \* "start", "walk" or "done"
    \* get_temp_folder and its callers (common.py)
    t_time,           \* time.time(), in half milliseconds
    t_calls,          \* the temporary folders handed out so far, in order
    \* Synology Note Station: notestation:// links
    sl_manifest,      \* the notes of the manifest (input_json["note"]), by id
    sl_index,         \* the id of the next note
    sl_notes,         \* the notes appended to the notebooks so far
    sl_log,           \* the notes ignored or failed, in order
    \* Synology Note Station: attachments over several inputs
    sa_inputs,        \* the inputs of convert_multiple
    sa_input_index,   \* the position of the input being converted
    sa_note_index,    \* the id of its next note; 0 before convert starts
    sa_available,     \* self.available_resources
    sa_notebooks,     \* the root notebooks convert_multiple has collected
    sa_root,          \* the notes of self.root_notebook
    sa_logged         \* the links the last convert_note logged

pruneVars == <<tree0, root_notebook, prune_pc>>
inputVars == <<in_conv, input_, root_path, in_valid>>
multiVars == <<cm_conv, files_or_folders, input_index, cm_root_notebook, cm_root_path,
               notebooks, outcome, warnings, next_id, cm_pc>>

defaultVars == <<d_input, d_root_notebook, d_log, d_pc>>
tagVars == <<tag_string, final_tags, resplit>>
tiddlyVars == <<file_dict, tiddler_index, tw_child_notes, tw_warnings, resource_folder,
                tw_raised, tw_pc>>

linkVars == <<MD, legacy_MD, links_call>>
inlineVars == <<it_text, start_characters, inline_tags>>
synologyVars ==
    <<syn_notes, syn_index, syn_child_notes, syn_warnings>>
legacyVars ==
    <<args_input, args_app, args_dry_run, main_pc, single_input_index, main_log>>
exportVars ==
    <<n_items, n_index, n_child_notes, n_child_notebooks, n_MD, n_raised, n_pc>>
handleVars ==
    <<h_siblings, h_body, h_links, h_index, h_resources, h_note_links, h_pc>>
walkVars ==
    <<w_input, w_root_notebook, w_stack, w_events, w_pc>>
tempVars ==
    <<t_time, t_calls>>
synLinkVars ==
    <<sl_manifest, sl_index, sl_notes, sl_log>>
attachVars ==
    <<sa_inputs, sa_input_index, sa_note_index, sa_available, sa_notebooks, sa_root,
    sa_logged>>

vars ==
    <<pruneVars, inputVars, multiVars, defaultVars, tagVars, tiddlyVars, linkVars,
    inlineVars, synologyVars, legacyVars, exportVars, handleVars, walkVars, tempVars,
    synLinkVars, attachVars>>

\* the variables of the other parts
notPrune ==
    <<inputVars, multiVars, defaultVars, tagVars, tiddlyVars, linkVars, inlineVars,
    synologyVars, legacyVars, exportVars, handleVars, walkVars, tempVars, synLinkVars,
    attachVars>>
notInput ==
    <<pruneVars, multiVars, defaultVars, tagVars, tiddlyVars, linkVars, inlineVars,
    synologyVars, legacyVars, exportVars, handleVars, walkVars, tempVars, synLinkVars,
    attachVars>>
notMulti ==
    <<pruneVars, inputVars, defaultVars, tagVars, tiddlyVars, linkVars, inlineVars,
    synologyVars, legacyVars, exportVars, handleVars, walkVars, tempVars, synLinkVars,
    attachVars>>
notDefault ==
    <<pruneVars, inputVars, multiVars, tagVars, tiddlyVars, linkVars, inlineVars,
    synologyVars, legacyVars, exportVars, handleVars, walkVars, tempVars, synLinkVars,
    attachVars>>
notTags ==
    <<pruneVars, inputVars, multiVars, defaultVars, tiddlyVars, linkVars, inlineVars,
    synologyVars, legacyVars, exportVars, handleVars, walkVars, tempVars, synLinkVars,
    attachVars>>
notTiddly ==
    <<pruneVars, inputVars, multiVars, defaultVars, tagVars, linkVars, inlineVars,
    synologyVars, legacyVars, exportVars, handleVars, walkVars, tempVars, synLinkVars,
    attachVars>>
notLinks ==
    <<pruneVars, inputVars, multiVars, defaultVars, tagVars, tiddlyVars, inlineVars,
    synologyVars, legacyVars, exportVars, handleVars, walkVars, tempVars, synLinkVars,
    attachVars>>
notInline ==
    <<pruneVars, inputVars, multiVars, defaultVars, tagVars, tiddlyVars, linkVars,
    synologyVars, legacyVars, exportVars, handleVars, walkVars, tempVars, synLinkVars,
    attachVars>>
notSynology ==
    <<pruneVars, inputVars, multiVars, defaultVars, tagVars, tiddlyVars, linkVars,
    inlineVars, legacyVars, exportVars, handleVars, walkVars, tempVars, synLinkVars,
    attachVars>>
notLegacy ==
    <<pruneVars, inputVars, multiVars, defaultVars, tagVars, tiddlyVars, linkVars,
    inlineVars, synologyVars, exportVars, handleVars, walkVars, tempVars, synLinkVars,
    attachVars>>
notExport ==
    <<pruneVars, inputVars, multiVars, defaultVars, tagVars, tiddlyVars, linkVars,
    inlineVars, synologyVars, legacyVars, handleVars, walkVars, tempVars, synLinkVars,
    attachVars>>
notHandle ==
    <<pruneVars, inputVars, multiVars, defaultVars, tagVars, tiddlyVars, linkVars,
    inlineVars, synologyVars, legacyVars, exportVars, walkVars, tempVars, synLinkVars,
    attachVars>>
notWalk ==
    <<pruneVars, inputVars, multiVars, defaultVars, tagVars, tiddlyVars, linkVars,
    inlineVars, synologyVars, legacyVars, exportVars, handleVars, tempVars, synLinkVars,
    attachVars>>
notTemp ==
    <<pruneVars, inputVars, multiVars, defaultVars, tagVars, tiddlyVars, linkVars,
    inlineVars, synologyVars, legacyVars, exportVars, handleVars, walkVars, synLinkVars,
    attachVars>>
notSynLinks ==
    <<pruneVars, inputVars, multiVars, defaultVars, tagVars, tiddlyVars, linkVars,
    inlineVars, synologyVars, legacyVars, exportVars, handleVars, walkVars, tempVars,
    attachVars>>
notAttach ==
    <<pruneVars, inputVars, multiVars, defaultVars, tagVars, tiddlyVars, linkVars,
    inlineVars, synologyVars, legacyVars, exportVars, handleVars, walkVars, tempVars,
    synLinkVars>>

\* an optional value is <<>> (None) or <<v>>
None == <<>>
Some(v) == <<v>>

(***************************************************************************)
(* Sequence helpers                                                        *)
(***************************************************************************)
RECURSIVE SeqsUpTo(_, _)
SeqsUpTo(S, n) ==
    IF n = 0 THEN {<<>>}
    ELSE SeqsUpTo(S, n - 1)
         \cup {Append(s, x) : s \in {t \in SeqsUpTo(S, n - 1) : Len(t) = n - 1}, x \in S}

Range(s) == {s[i] : i \in DOMAIN s}

(***************************************************************************)
(* Notebook trees.  A notebook is [title, child_notes, child_notebooks].   *)
(* A title is the notebook's position in the tree the converter built, so  *)
(* that every notebook of a tree can be told from the others.              *)
(***************************************************************************)
MaxNotebooks == 5

NoteLists == {<<>>, <<"note b", "note a">>}

Notebook(title, notes, children) ==
    [title |-> title, child_notes |-> notes, child_notebooks |-> children]

RECURSIVE TreesOfSize(_), ForestsOfSize(_)
TreesOfSize(n) ==
    {Notebook(<<>>, notes, kids) : notes \in NoteLists, kids \in ForestsOfSize(n - 1)}

ForestsOfSize(m) ==
    IF m = 0 THEN {<<>>}
    ELSE UNION {{<<t>> \o f : t \in TreesOfSize(k), f \in ForestsOfSize(m - k)} : k \in 1..m}

RECURSIVE Retitle(_, _)
Retitle(nb, path) ==
    Notebook(path, nb.child_notes,
             [i \in DOMAIN nb.child_notebooks |->
                 Retitle(nb.child_notebooks[i], Append(path, i))])

BuiltTrees == {Retitle(t, <<>>) : t \in UNION {TreesOfSize(n) : n \in 1..MaxNotebooks}}

\* Notebook.is_empty(): no notes, and every descendant notebook is empty.
RECURSIVE is_empty(_)
is_empty(nb) ==
    /\ nb.child_notes = <<>>
    /\ \A i \in DOMAIN nb.child_notebooks : is_empty(nb.child_notebooks[i])

remove_empty_notebooks_top_level_only(nb) ==
    \* the filter without the recursive call on each child
    LET NotEmpty(child) == ~is_empty(child)
    IN  [nb EXCEPT !.child_notebooks = SelectSeq(nb.child_notebooks, NotEmpty)]

RECURSIVE remove_empty_notebooks(_)
remove_empty_notebooks_prepending(nb) ==
    \* the notebooks that are kept put in front of the list, not at its end
    LET pruned == [i \in DOMAIN nb.child_notebooks |->
                       remove_empty_notebooks(nb.child_notebooks[i])]
        NotEmpty(child) == ~is_empty(child)
        kept == SelectSeq(pruned, NotEmpty)
    IN  [nb EXCEPT !.child_notebooks = [i \in DOMAIN kept |-> kept[Len(kept) + 1 - i]]]

remove_empty_notebooks(nb) ==
    LET pruned == [i \in DOMAIN nb.child_notebooks |->
                       remove_empty_notebooks(nb.child_notebooks[i])]
        NotEmpty(child) == ~is_empty(child)
    IN  [nb EXCEPT !.child_notebooks = SelectSeq(pruned, NotEmpty)]

PruneInit ==
    /\ tree0 \in BuiltTrees
    /\ root_notebook = tree0
    /\ prune_pc = "built"

PruneIdle ==
    /\ tree0 = None
    /\ root_notebook = None
    /\ prune_pc = "idle"

RemoveEmptyNotebooks ==
    /\ prune_pc \in {"built", "pruned"}
    /\ root_notebook' = remove_empty_notebooks(root_notebook)
    /\ prune_pc' = "pruned"
    /\ UNCHANGED tree0
    /\ UNCHANGED notPrune


(***************************************************************************)
(* What a tree holds                                                       *)
(***************************************************************************)
RECURSIVE Descendants(_)
Descendants(nb) ==
    \* every notebook below nb (nb itself excluded)
    UNION {{nb.child_notebooks[i]} \cup Descendants(nb.child_notebooks[i]) :
              i \in DOMAIN nb.child_notebooks}

RECURSIVE NoteCount(_)
NoteCount(nb) ==
    LET RECURSIVE Sum(_)
        Sum(i) == IF i = 0 THEN 0 ELSE NoteCount(nb.child_notebooks[i]) + Sum(i - 1)
    IN  Len(nb.child_notes) + Sum(Len(nb.child_notebooks))

Titles(nbs) == {nb.title : nb \in nbs}

ChildTitles(nb) == [i \in DOMAIN nb.child_notebooks |-> nb.child_notebooks[i].title]

\* the notebook of tree `root` titled `title` (the root included)
NotebookAt(root, title) ==
    CHOOSE nb \in Descendants(root) \cup {root} : nb.title = title

\* C1: remove_empty_notebooks removes exactly the descendant notebooks whose
\* subtree holds zero notes: the notebooks left are those of the built tree
\* whose subtree holds a note, each with its notes untouched and with its
\* surviving children in their old order; a notebook holding a note survives
\* with all its ancestors (every prefix of its position).
C1_RemovesExactlyEmptySubtrees ==
    prune_pc = "pruned" =>
        LET before == Descendants(tree0)
            after  == Descendants(root_notebook)
            Keeps(title) == NoteCount(NotebookAt(tree0, title)) > 0
        IN  /\ Titles(after) = {t \in Titles(before) : Keeps(t)}
            /\ Cardinality(after) = Cardinality(Titles(after))
            /\ root_notebook.title = tree0.title
            /\ \A nb \in after \cup {root_notebook} :
                 LET old == NotebookAt(tree0, nb.title)
                     Kept(t) == Keeps(t)
                 IN  /\ nb.child_notes = old.child_notes
                     /\ ChildTitles(nb) = SelectSeq(ChildTitles(old), Kept)
            /\ \A t \in Titles(before) :
                 Len(NotebookAt(tree0, t).child_notes) > 0 =>
                     \A k \in 1..Len(t) : SubSeq(t, 1, k) \in Titles(after)

\* a notebook that holds only a nested notebook without notes went away with
\* it, while a notebook two levels down that holds a note stayed
C1_Witness ==
    /\ prune_pc = "pruned"
    /\ \E nb \in Descendants(tree0) :
         /\ nb.child_notes = <<>>
         /\ Len(nb.child_notebooks) = 1
         /\ nb.child_notebooks[1].child_notes = <<>>
         /\ nb.child_notebooks[1].child_notebooks = <<>>
         /\ nb.title \notin Titles(Descendants(root_notebook))
         /\ nb.child_notebooks[1].title \notin Titles(Descendants(root_notebook))
    /\ \E nb \in Descendants(root_notebook) :
         /\ Len(nb.title) = 2
         /\ Len(nb.child_notes) > 0

(***************************************************************************)
(* Paths.  A name is a sequence of chunks and "." separators; what is on   *)
(* disk at a path is one of FsKinds.                                       *)
(***************************************************************************)
InputNames ==
    { <<"notes">>, <<".", "zip">>,
      <<"a", ".", "zip">>, <<"a", ".", "ZIP">>, <<"a", ".", "nsx">>,
      <<"a", ".", "apkg">>, <<"a", ".", "zkn3">>,
      <<"a", ".", "jex">>, <<"a", ".", "tgz">>, <<"a", ".", "tar", ".", "gz">>,
      <<"a", ".", "bear2bk">>, <<"a", ".", "textpack">>, <<"a", ".", "textbundle">>,
      <<"a", ".", "json">>, <<"a", ".", "tid">>, <<"a", ".", "md">> }

\* "zip_single_folder": a zip archive with exactly one folder at its top;
\* "zip_of_zips": a zip archive whose members are zip archives (Notion)
FsKinds == {"missing", "dir", "zip", "zip_single_folder", "zip_of_zips", "tar", "other"}

Path(name, fs) == [name |-> name, fs |-> fs]

exists(path) == path.fs # "missing"
is_dir(path) == path.fs = "dir"
is_file(path) == path.fs \notin {"missing", "dir"}

\* str.lower() of a chunk
lower_chunk(c) ==
    CASE c = "ZIP" -> "zip"
      [] c = "TXT" -> "txt"
      [] c = "MD" -> "md"
      [] OTHER -> c

lower(s) == [i \in DOMAIN s |-> lower_chunk(s[i])]

\* the last "." of a name (0: none)
RECURSIVE rfind_dot(_, _)
rfind_dot(name, i) ==
    IF i = 0 THEN 0
    ELSE IF name[i] = "." THEN i
    ELSE rfind_dot(name, i - 1)

\* pathlib's PurePath.suffix: from the last dot on, unless that dot starts or
\* ends the name
suffix(name) ==
    LET i == rfind_dot(name, Len(name))
    IN  IF 1 < i /\ i < Len(name) THEN SubSeq(name, i, Len(name)) ELSE <<>>

Ext(e) == <<".", e>>

(***************************************************************************)
(* Converters: the class attributes of BaseConverter and its subclasses.   *)
(***************************************************************************)
ConverterClass(name, exts, folder, prepare) ==
    [name |-> name, accepted_extensions |-> exts, accept_folder |-> folder,
     prepare |-> prepare]

Wildcard == << <<"*">> >>
\* accepted_extensions = None, the default of BaseConverter
Undeclared == << <<"None">> >>

DefaultConverter == ConverterClass("default", Wildcard, TRUE, "base")
NotionConverter == ConverterClass("notion", <<Ext("zip")>>, FALSE, "notion")
SynologyConverter == ConverterClass("synology_note_station", <<Ext("nsx")>>, FALSE, "base")
TiddlywikiConverter == ConverterClass("tiddlywiki", <<Ext("json"), Ext("tid")>>, FALSE, "base")
\* a converter that declares nothing (apps/obsidian.py) keeps the defaults of
\* BaseConverter; FolderConverter sets accept_folder only
ObsidianConverter == ConverterClass("obsidian", Undeclared, FALSE, "base")
FolderConverter == ConverterClass("folder", Undeclared, TRUE, "base")

Converters ==
    {DefaultConverter, NotionConverter, SynologyConverter, TiddlywikiConverter,
     ObsidianConverter, FolderConverter}

(***************************************************************************)
(* Archive extraction (common.py).  A result is a path or an exception.    *)
(***************************************************************************)
Raised(exc) == [raised |-> exc]
IsRaised(r) == "raised" \in DOMAIN r

\* a temporary folder holding what was extracted from `input`
TempFolder(how, input, descended) ==
    [temp |-> how, of |-> input.name, child_folder |-> descended]

extract_zip(input) ==
    CASE input.fs = "missing" -> Raised("FileNotFoundError")
      [] input.fs = "dir" -> Raised("IsADirectoryError")
      [] input.fs \in {"zip", "zip_single_folder", "zip_of_zips"} ->
            TempFolder("unzip", input, FALSE)
      [] OTHER -> Raised("BadZipFile")

extract_tar(input) ==
    CASE input.fs = "missing" -> Raised("FileNotFoundError")
      [] input.fs = "dir" -> Raised("IsADirectoryError")
      [] input.fs = "tar" -> TempFolder("untar", input, FALSE)
      [] OTHER -> Raised("ReadError")

\* get_single_child_folder of what extract_zip returned
get_single_child_folder(input, temp_folder) ==
    IF input.fs = "zip_single_folder"
    THEN [temp_folder EXCEPT !.child_folder = TRUE]
    ELSE Raised("AssertionError")

\* BaseConverter.prepare_input
base_prepare_input(input) ==
    LET s == lower(suffix(input.name))
    IN  CASE s \in {Ext("bear2bk"), Ext("textpack")} ->
               LET temp_folder == extract_zip(input)
               IN  IF IsRaised(temp_folder) THEN temp_folder
                   ELSE get_single_child_folder(input, temp_folder)
          [] s \in {Ext("jex"), Ext("tgz"), <<".", "tar", ".", "gz">>} -> extract_tar(input)
          [] s \in {Ext("apkg"), Ext("nsx"), Ext("zip"), Ext("zkn3")} -> extract_zip(input)
          [] OTHER -> input

\* formats/notion.py prepare_input: a zip of zips, unpacked and flattened
notion_prepare_input(input) ==
    CASE input.fs = "missing" -> Raised("FileNotFoundError")
      [] input.fs = "dir" -> Raised("IsADirectoryError")
      [] input.fs = "zip_of_zips" -> TempFolder("unzip_nested", input, FALSE)
      [] OTHER -> Raised("BadZipFile")

prepare_input(conv, input) ==
    IF conv.prepare = "notion" THEN notion_prepare_input(input)
    ELSE base_prepare_input(input)

has_valid_format_case_sensitive(conv, input) ==
    \* the extension compared as written
    IF /\ conv.accepted_extensions # Undeclared
       /\ \/ suffix(input.name) \in Range(conv.accepted_extensions)
          \/ conv.accepted_extensions = Wildcard
    THEN TRUE
    ELSE conv.accept_folder /\ is_dir(input)

\* BaseConverter.has_valid_format
has_valid_format(conv, input) ==
    IF /\ conv.accepted_extensions # Undeclared
       /\ \/ lower(suffix(input.name)) \in Range(conv.accepted_extensions)
          \/ conv.accepted_extensions = Wildcard
    THEN TRUE
    ELSE conv.accept_folder /\ is_dir(input)

InputInit ==
    /\ in_conv \in Converters
    /\ input_ \in {Path(n, fs) : n \in InputNames, fs \in FsKinds}
    /\ root_path = None
    /\ in_valid = None

InputIdle ==
    /\ in_conv = None
    /\ input_ = None
    /\ root_path = None
    /\ in_valid = None

PrepareInput ==
    /\ root_path' = Some(prepare_input(in_conv, input_))
    /\ UNCHANGED <<in_conv, input_, in_valid>>
    /\ UNCHANGED notInput

HasValidFormat ==
    /\ in_valid' = Some(has_valid_format(in_conv, input_))
    /\ UNCHANGED <<in_conv, input_, root_path>>
    /\ UNCHANGED notInput

InputNext == PrepareInput \/ HasValidFormat

(***************************************************************************)
(* convert_multiple.  One action per way an iteration of its loop ends.    *)
(***************************************************************************)
MaxInputs == 2

MultiNames == {<<"notes">>, <<"a", ".", "zip">>, <<"a", ".", "md">>, <<"a", ".", "json">>}
MultiFsKinds == {"missing", "dir", "zip", "zip_of_zips", "other"}
MultiConverters == {DefaultConverter, NotionConverter, TiddlywikiConverter}

\* config.output_folder
output_folder == [parent |-> <<"tmp">>, name |-> <<"out">>]

with_name(path, name) == [path EXCEPT !.name = name]

index_suffix_from_one(n, index) ==
    \* the inputs counted from 1
    IF n = 1 THEN <<>> ELSE <<" ", ToString(index + 1)>>

\* "" if len(files_or_folders) == 1 else f" {input_index}"
index_suffix(n, index) ==
    IF n = 1 THEN <<>> ELSE <<" ", ToString(index)>>

\* imf.Notebook(output_folder.name, path=output_folder), a new object
RootNotebook(id, folder) ==
    [id |-> id, title |-> folder.name, path |-> folder,
     child_notes |-> <<>>, child_notebooks |-> <<>>]

\* whether convert of this converter lets an exception out: the default
\* converter catches per file; the others read and parse files unguarded
convert_may_raise(conv) == conv.name # "default"

\* what convert leaves in the root notebook: here, a note naming the input
convert(root, input) ==
    [root EXCEPT !.child_notes = <<[source |-> input.name]>>]

MultiInit ==
    /\ cm_conv \in MultiConverters
    /\ files_or_folders \in
          SeqsUpTo({Path(n, fs) : n \in MultiNames, fs \in MultiFsKinds}, MaxInputs)
    /\ input_index = 0
    /\ cm_root_notebook = None
    /\ cm_root_path = None
    /\ notebooks = <<>>
    /\ outcome = <<>>
    /\ warnings = <<>>
    /\ next_id = 1
    /\ cm_pc = "loop"

MultiIdle ==
    /\ cm_conv = None
    /\ files_or_folders = <<>>
    /\ input_index = 0
    /\ cm_root_notebook = None
    /\ cm_root_path = None
    /\ notebooks = <<>>
    /\ outcome = <<>>
    /\ warnings = <<>>
    /\ next_id = 0
    /\ cm_pc = "idle"

\* the input of this iteration and the root notebook constructed for it
file_or_folder == files_or_folders[input_index + 1]

NewRoot ==
    RootNotebook(next_id,
                 with_name(output_folder,
                           output_folder.name
                               \o index_suffix(Len(files_or_folders), input_index)))

InLoop == cm_pc = "loop" /\ input_index < Len(files_or_folders)

\* lines 57-58: the root is constructed, then prepare_input raises
PrepareRaises ==
    /\ InLoop
    /\ IsRaised(prepare_input(cm_conv, file_or_folder))
    /\ cm_root_notebook' = Some(NewRoot)
    /\ next_id' = next_id + 1
    /\ outcome' = Append(outcome, "raised_prepare")
    /\ cm_pc' = "raised"
    /\ UNCHANGED <<cm_conv, files_or_folders, input_index, cm_root_path, notebooks, warnings>>
    /\ UNCHANGED notMulti

\* lines 60-62
SkipMissing ==
    /\ InLoop
    /\ ~IsRaised(prepare_input(cm_conv, file_or_folder))
    /\ ~exists(file_or_folder)
    /\ cm_root_notebook' = Some(NewRoot)
    /\ next_id' = next_id + 1
    /\ cm_root_path' = Some(prepare_input(cm_conv, file_or_folder))
    /\ warnings' = Append(warnings, input_index)
    /\ outcome' = Append(outcome, "skipped_missing")
    /\ input_index' = input_index + 1
    /\ UNCHANGED <<cm_conv, files_or_folders, notebooks, cm_pc>>
    /\ UNCHANGED notMulti

\* lines 63-65
SkipInvalidFormat ==
    /\ InLoop
    /\ ~IsRaised(prepare_input(cm_conv, file_or_folder))
    /\ exists(file_or_folder)
    /\ ~has_valid_format(cm_conv, file_or_folder)
    /\ cm_root_notebook' = Some(NewRoot)
    /\ next_id' = next_id + 1
    /\ cm_root_path' = Some(prepare_input(cm_conv, file_or_folder))
    /\ warnings' = Append(warnings, input_index)
    /\ outcome' = Append(outcome, "skipped_format")
    /\ input_index' = input_index + 1
    /\ UNCHANGED <<cm_conv, files_or_folders, notebooks, cm_pc>>
    /\ UNCHANGED notMulti

CanConvert ==
    /\ InLoop
    /\ ~IsRaised(prepare_input(cm_conv, file_or_folder))
    /\ exists(file_or_folder)
    /\ has_valid_format(cm_conv, file_or_folder)

\* lines 66-67
ConvertInput ==
    /\ CanConvert
    /\ cm_root_notebook' = Some(convert(NewRoot, file_or_folder))
    /\ next_id' = next_id + 1
    /\ cm_root_path' = Some(prepare_input(cm_conv, file_or_folder))
    /\ notebooks' = Append(notebooks, convert(NewRoot, file_or_folder))
    /\ outcome' = Append(outcome, "converted")
    /\ input_index' = input_index + 1
    /\ UNCHANGED <<cm_conv, files_or_folders, warnings, cm_pc>>
    /\ UNCHANGED notMulti

\* line 66: convert raises
ConvertRaises ==
    /\ CanConvert
    /\ convert_may_raise(cm_conv)
    /\ cm_root_notebook' = Some(NewRoot)
    /\ next_id' = next_id + 1
    /\ cm_root_path' = Some(prepare_input(cm_conv, file_or_folder))
    /\ outcome' = Append(outcome, "raised_convert")
    /\ cm_pc' = "raised"
    /\ UNCHANGED <<cm_conv, files_or_folders, input_index, notebooks, warnings>>
    /\ UNCHANGED notMulti

\* line 68
ReturnNotebooks ==
    /\ cm_pc = "loop"
    /\ input_index = Len(files_or_folders)
    /\ cm_pc' = "returned"
    /\ UNCHANGED <<cm_conv, files_or_folders, input_index, cm_root_notebook, cm_root_path,
                   notebooks, outcome, warnings, next_id>>
    /\ UNCHANGED notMulti

MultiNext ==
    \/ PrepareRaises
    \/ SkipMissing
    \/ SkipInvalidFormat
    \/ ConvertInput
    \/ ConvertRaises
    \/ ReturnNotebooks

(***************************************************************************)
(* The default converter.  A file is [name, kind, fails]: `fails` says     *)
(* that reading or converting it raises.  A folder is [name, kind,         *)
(* entries], its entries a set.  The files of this model hold no links.    *)
(***************************************************************************)
MaxFolderDepth == 2

File(name, fails) == [name |-> name, kind |-> "file", fails |-> fails]
Folder(name, entries) == [name |-> name, kind |-> "dir", entries |-> entries]

\* the names of the model in the order sorted() puts them
NameOrder ==
    << <<"README">>, <<"a", ".", "txt">>, <<"b", ".", "docx">>, <<"m">>, <<"sub">>,
       <<"z", ".", "txt">> >>

FileChoices(name) == {{}} \cup {{File(name, fails)} : fails \in BOOLEAN}

RECURSIVE FoldersOfDepth(_, _)
FoldersOfDepth(name, depth) ==
    {Folder(name, readme \cup txt \cup docx \cup sub) :
        readme \in {{}, {File(<<"README">>, FALSE)}},
        txt \in FileChoices(<<"a", ".", "txt">>),
        docx \in FileChoices(<<"b", ".", "docx">>),
        sub \in IF depth <= 1 THEN {{}}
                ELSE {{}} \cup {{f} : f \in FoldersOfDepth(<<"sub">>, depth - 1)}}

DefaultInputs ==
    FoldersOfDepth(<<"notes">>, MaxFolderDepth)
        \cup {File(<<"README">>, FALSE)}
        \cup {File(<<"a", ".", "txt">>, fails) : fails \in BOOLEAN}

\* pathlib's PurePath.stem
stem(name) ==
    LET i == rfind_dot(name, Len(name))
    IN  IF 1 < i /\ i < Len(name) THEN SubSeq(name, 1, i - 1) ELSE name

\* sorted(file_or_folder.iterdir())
sorted_entries(folder) ==
    LET Present(n) == \E e \in folder.entries : e.name = n
        names == SelectSeq(NameOrder, Present)
    IN  [i \in DOMAIN names |-> CHOOSE e \in folder.entries : e.name = names[i]]

Note(title, body) ==
    [title |-> title, body |-> body, source_application |-> "jimmy",
     resources |-> <<>>, note_links |-> <<>>]

\* DefaultConverter.convert_file: the parent with the note appended, or the
\* exception of the reader or the external tool
convert_file(file_, parent) ==
    LET s == lower(suffix(file_.name))
        how == CASE s \in {Ext("adoc"), Ext("asciidoc")} -> "asciidoctor"
                 [] s = Ext("eml") -> "eml_to_note"
                 [] s = Ext("fountain") -> "fountain"
                 [] s \in {Ext("md"), Ext("markdown"), Ext("txt"), Ext("text")} -> "read_text"
                 [] OTHER -> "file_to_markdown"
        note_imf == Note(stem(file_.name), [how |-> how, of |-> file_.name])
    IN  IF file_.fails THEN Raised("Exception")
        ELSE [parent EXCEPT !.child_notes = Append(@, note_imf)]

has_no_suffix_never(file_) == FALSE

\* not file_or_folder.suffix.lower()
has_no_suffix(file_) == lower(suffix(file_.name)) = <<>>

\* convert_file_or_folder: [parent, log] after the item was handled
RECURSIVE convert_file_or_folder(_, _, _)
convert_file_or_folder(item, parent, log) ==
    IF item.kind = "file"
    THEN IF has_no_suffix(item)
         THEN [parent |-> parent, log |-> Append(log, <<"ignored", item.name>>)]
         ELSE LET converted == convert_file(item, parent)
              IN  IF IsRaised(converted)
                  THEN [parent |-> parent, log |-> Append(log, <<"fail", item.name>>)]
                  ELSE [parent |-> converted, log |-> Append(log, <<"ok", item.name>>)]
    ELSE LET items == sorted_entries(item)
             IsFile(e) == e.kind = "file"
             IsFolder(e) == e.kind # "file"
             \* the files first, the folders after them
             order == SelectSeq(items, IsFile) \o SelectSeq(items, IsFolder)
             RECURSIVE Walk(_, _)
             Walk(k, acc) ==
                 IF k > Len(order) THEN acc
                 ELSE Walk(k + 1, convert_file_or_folder(order[k], acc.parent, acc.log))
             walked == Walk(1, [parent |-> Notebook(stem(item.name), <<>>, <<>>),
                                log |-> Append(log, <<"entering folder", item.name>>)])
         IN  [parent |-> [parent EXCEPT !.child_notebooks = Append(@, walked.parent)],
              log |-> walked.log]

DefaultInit ==
    /\ d_input \in DefaultInputs
    /\ d_root_notebook = Notebook(<<"out">>, <<>>, <<>>)
    /\ d_log = <<>>
    /\ d_pc = "start"

DefaultIdle ==
    /\ d_input = None
    /\ d_root_notebook = None
    /\ d_log = <<>>
    /\ d_pc = "idle"

\* DefaultConverter.convert: the walk, then remove_empty_notebooks
DefaultConvert ==
    /\ d_pc = "start"
    /\ LET walked == convert_file_or_folder(d_input, d_root_notebook, d_log)
       IN  /\ d_root_notebook' = remove_empty_notebooks(walked.parent)
           /\ d_log' = walked.log
    /\ d_pc' = "done"
    /\ UNCHANGED d_input
    /\ UNCHANGED notDefault

(***************************************************************************)
(* split_tags (formats/tiddlywiki.py).  Strings are sequences of           *)
(* characters.                                                             *)
(***************************************************************************)
MaxTagLen == 5

TagChars == {"a", "b", " ", "[", "]"}

\* the strings of the doctests
TagWithSpaces == <<"t", "a", "g", " ", "w", "i", "t", "h", " ", "s", "p", "a", "c", "e", "s">>
Tag123 == <<"t", "a", "g", "1", " ", "t", "a", "g", "2", " ", "t", "a", "g", "3">>
DocTagStrings ==
    { <<"[", "[">> \o TagWithSpaces \o <<"]", "]">>,
      Tag123,
      Tag123 \o <<" ", "[", "[">> \o TagWithSpaces \o <<"]", "]">> }

\* str.strip() leaves nothing
is_blank(str) == \A i \in DOMAIN str : str[i] \in {" ", "\t", "\n", "\r"}

\* str.split(" "): the pieces between single spaces, empty ones included
RECURSIVE split_at_spaces(_)
split_at_spaces(str) ==
    IF \A i \in DOMAIN str : str[i] # " " THEN <<str>>
    ELSE LET k == CHOOSE i \in DOMAIN str : str[i] = " " /\ \A j \in 1..(i - 1) : str[j] # " "
         IN  <<SubSeq(str, 1, k - 1)>> \o split_at_spaces(SubSeq(str, k + 1, Len(str)))

startswith_brackets(part) == Len(part) >= 2 /\ part[1] = "[" /\ part[2] = "["
endswith_brackets(part) == Len(part) >= 2 /\ part[Len(part) - 1] = "]" /\ part[Len(part)] = "]"

\* the loop of split_tags from part k on; `tag` is space_separated_tag
RECURSIVE split_tags_loop(_, _, _, _)
split_tags_loop(parts, k, tag, tags) ==
    IF k > Len(parts) THEN tags
    ELSE LET part == parts[k]
         IN  IF tag # <<>>
             THEN IF endswith_brackets(part)
                  THEN split_tags_loop(parts, k + 1, <<>>,
                           Append(tags, tag \o <<" ">> \o SubSeq(part, 1, Len(part) - 2)))
                  ELSE split_tags_loop(parts, k + 1, tag \o <<" ">> \o part, tags)
             ELSE IF startswith_brackets(part)
                  THEN split_tags_loop(parts, k + 1, SubSeq(part, 3, Len(part)), tags)
                  ELSE split_tags_loop(parts, k + 1, tag, Append(tags, part))

split_tags_without_blank_check(str) ==
    \* the loop without the early return for a blank string
    split_tags_loop(split_at_spaces(str), 1, <<>>, <<>>)

split_tags(str) ==
    IF is_blank(str) THEN <<>>
    ELSE split_tags_loop(split_at_spaces(str), 1, <<>>, <<>>)

TagsInit ==
    /\ tag_string \in SeqsUpTo(TagChars, MaxTagLen) \cup DocTagStrings
    /\ final_tags = None
    /\ resplit = None

TagsIdle ==
    /\ tag_string = <<>>
    /\ final_tags = None
    /\ resplit = None

SplitTags ==
    /\ final_tags = None
    /\ final_tags' = Some(split_tags(tag_string))
    /\ UNCHANGED <<tag_string, resplit>>
    /\ UNCHANGED notTags

\* split_tags applied to one of the tags it returned
ResplitTag ==
    /\ final_tags # None
    /\ \E i \in DOMAIN final_tags[1] :
          resplit' = Some([tag |-> final_tags[1][i], tags |-> split_tags(final_tags[1][i])])
    /\ UNCHANGED <<tag_string, final_tags>>
    /\ UNCHANGED notTags

TagsNext == SplitTags \/ ResplitTag

(***************************************************************************)
(* Converter.convert_json (formats/tiddlywiki.py).  A tiddler is a record  *)
(* of optional fields (None: the key is absent).  A MIME type is a         *)
(* sequence <<major, "/", minor>>, the empty string the empty sequence.    *)
(* The tiddlers of this model have neither "alt-text" nor "creator".       *)
(***************************************************************************)
MaxTiddlers == 2

Tiddler(title, type, text, source, uri, tags, created, modified) ==
    [title |-> title, type |-> type, text |-> text, source |-> source,
     _canonical_uri |-> uri, tags |-> tags, created |-> created, modified |-> modified]

\* dict.get(key, default)
get(value, default) == IF value = None THEN default ELSE value[1]

Mime(major, minor) == <<major, "/", minor>>

\* texts base64.b64decode accepts; it raises binascii.Error for the others
Base64Texts == {"aGVsbG8="}
TiddlerTexts == {"aGVsbG8=", "hello"}

\* times strptime(tiddlywiki_time, "%Y%m%d%H%M%S%f") accepts; it raises
\* ValueError for the others
TiddlywikiTimes == {"20240102030405000"}
TiddlerTimes == {"20240102030405000", "2024-01-02"}

SpecialTag == <<"$", ":", "/", "t", "a", "g", "s", "/", "x">>

tiddlywiki_to_datetime(tiddlywiki_time) ==
    IF tiddlywiki_time \in TiddlywikiTimes THEN [datetime |-> tiddlywiki_time]
    ELSE Raised("ValueError")

\* the tiddlers of the model, before they get their titles
TiddlerShapes ==
    { Tiddler(Some("t"), Some(Mime("image", "png")), text, source, uri, None, None, None) :
        text \in {None} \cup {Some(t) : t \in TiddlerTexts},
        source \in {None, Some("source")}, uri \in {None, Some("uri")} }
    \cup
    { Tiddler(Some("t"), Some(type), text, None, None, None, None, None) :
        type \in {Mime("application", "pdf"), Mime("audio", "mp3"), Mime("image", "svg+xml"),
                  Mime("application", "json"), Mime("text", "vnd.tiddlywiki")},
        text \in {None, Some("aGVsbG8=")} }
    \cup
    { Tiddler(title, None, Some("hello"), None, None, tags, created, modified) :
        title \in {None, Some("t")},
        tags \in {None, Some(<<"a", " ", "b">>), Some(SpecialTag)},
        created \in {None} \cup {Some(t) : t \in TiddlerTimes},
        modified \in {None, Some("2024-01-02")} }
    \cup
    { Tiddler(Some("t"), None, Some("hello"), None, None, Some(tags), None, None) :
        tags \in { <<"[", "[">> \o SpecialTag \o <<"]", "]">>,
                   <<"[", "[">> \o SpecialTag \o <<" ", "y", "]", "]">> } }

TiddlerTitles == <<"t1", "t2", "t3", "t4">>
UniqueTitles == <<"unnamed-1", "unnamed-2", "unnamed-3", "unnamed-4">>

\* every tiddler that has a title gets the one of its position
WithTitles(tiddlers) ==
    [ i \in DOMAIN tiddlers |->
        IF tiddlers[i].title = None THEN tiddlers[i]
        ELSE [tiddlers[i] EXCEPT !.title = Some(TiddlerTitles[i])] ]

\* common.unique_title(): a new name at each call
unique_title(folder) == UniqueTitles[Len(folder) + 1]

\* markdown_lib.tiddlywiki.wikitext_to_md
wikitext_to_md(wikitext) == [kind |-> "wikitext_to_md", label |-> "", url |-> wikitext]

ImageLink(label, url) == [kind |-> "image", label |-> label, url |-> url]
PlainLink(label, url) == [kind |-> "link", label |-> label, url |-> url]
CodeBlock(text) == [kind |-> "code_block", label |-> "", url |-> text]

Resource(filename, title) == [filename |-> filename, title |-> title]

TiddlyNote(title, body, tags, resources, created, updated) ==
    [title |-> title, body |-> body, tags |-> tags, resources |-> resources,
     created |-> created, updated |-> updated]

is_attachment_images_only(mime) ==
    \* without application/pdf and audio/mp3
    Len(mime) >= 2 /\ mime[1] = "image" /\ mime[2] = "/"

is_attachment(mime) ==
    \/ (Len(mime) >= 2 /\ mime[1] = "image" /\ mime[2] = "/")
    \/ mime = Mime("application", "pdf")
    \/ mime = Mime("audio", "mp3")

startswith_special(tag) ==
    Len(tag) >= 8 /\ SubSeq(tag, 1, 8) = <<"$", ":", "/", "t", "a", "g", "s", "/">>

\* how one iteration ends: "raise", "continue" or "note"; `written` are the
\* files it wrote and `warned` the warnings it logged before that
IterationResult(kind, exc, note, written, warned) ==
    [kind |-> kind, exc |-> exc, note |-> note, written |-> written, warned |-> warned]

\* one iteration of the loop of convert_json
convert_tiddler(tiddler, folder) ==
    IF tiddler.title = None THEN IterationResult("raise", "KeyError", None, <<>>, <<>>)
    ELSE
    LET title == tiddler.title[1]
        mime == get(tiddler.type, <<>>)
    IN
    IF mime = Mime("image", "svg+xml") THEN IterationResult("continue", "", None, <<>>, <<>>)
    ELSE IF is_attachment(mime) /\ tiddler.text # None /\ tiddler.text[1] \notin Base64Texts
    THEN IterationResult("raise", "binascii.Error", None, <<>>, <<>>)
    ELSE
    LET from_text == is_attachment(mime) /\ tiddler.text # None
        temp_filename == unique_title(folder)
        body ==
            IF is_attachment(mime)
            THEN IF tiddler.text # None THEN ImageLink(temp_filename, temp_filename)
                 ELSE IF tiddler.source # None THEN ImageLink(title, tiddler.source[1])
                 ELSE IF tiddler._canonical_uri # None
                      THEN PlainLink(title, tiddler._canonical_uri[1])
                 ELSE wikitext_to_md(get(tiddler.text, ""))
            ELSE IF mime = Mime("application", "json") THEN CodeBlock(get(tiddler.text, ""))
            ELSE wikitext_to_md(get(tiddler.text, ""))
        written == IF from_text THEN <<temp_filename>> ELSE <<>>
        resources == IF from_text THEN <<Resource(temp_filename, None)>> ELSE <<>>
        warned ==
            IF /\ is_attachment(mime)
               /\ tiddler.text = None /\ tiddler.source = None /\ tiddler._canonical_uri = None
            THEN <<title>> ELSE <<>>
        tags == split_tags(get(tiddler.tags, <<>>))
        created == IF tiddler.created = None THEN None
                   ELSE Some(tiddlywiki_to_datetime(tiddler.created[1]))
        updated == IF tiddler.modified = None THEN None
                   ELSE Some(tiddlywiki_to_datetime(tiddler.modified[1]))
    IN
    IF created # None /\ IsRaised(created[1])
    THEN IterationResult("raise", "ValueError", None, written, warned)
    ELSE IF updated # None /\ IsRaised(updated[1])
    THEN IterationResult("raise", "ValueError", None, written, warned)
    ELSE IF \E i \in DOMAIN tags : startswith_special(tags[i])
    THEN IterationResult("continue", "", None, written, warned)
    ELSE IterationResult("note", "",
             Some(TiddlyNote(title, body, tags, resources, created, updated)),
             written, warned)

TiddlyInit ==
    /\ file_dict \in {WithTitles(t) : t \in SeqsUpTo(TiddlerShapes, MaxTiddlers)}
    /\ tiddler_index = 1
    /\ tw_child_notes = <<>>
    /\ tw_warnings = <<>>
    /\ resource_folder = <<>>
    /\ tw_raised = None
    /\ tw_pc = "loop"

TiddlyIdle ==
    /\ file_dict = <<>>
    /\ tiddler_index = 1
    /\ tw_child_notes = <<>>
    /\ tw_warnings = <<>>
    /\ resource_folder = <<>>
    /\ tw_raised = None
    /\ tw_pc = "idle"

InTiddlerLoop == tw_pc = "loop" /\ tiddler_index <= Len(file_dict)

\* the iteration of the loop on the next tiddler
ThisIteration == convert_tiddler(file_dict[tiddler_index], resource_folder)

\* no try/except encloses the body of the loop: the exception leaves
\* convert_json
TiddlerRaises ==
    /\ InTiddlerLoop
    /\ ThisIteration.kind = "raise"
    /\ resource_folder' = resource_folder \o ThisIteration.written
    /\ tw_warnings' = tw_warnings \o ThisIteration.warned
    /\ tw_raised' = Some(ThisIteration.exc)
    /\ tw_pc' = "raised"
    /\ UNCHANGED <<file_dict, tiddler_index, tw_child_notes>>
    /\ UNCHANGED notTiddly

\* `continue`: an SVG image or a note with a special tag
TiddlerSkipped ==
    /\ InTiddlerLoop
    /\ ThisIteration.kind = "continue"
    /\ resource_folder' = resource_folder \o ThisIteration.written
    /\ tw_warnings' = tw_warnings \o ThisIteration.warned
    /\ tiddler_index' = tiddler_index + 1
    /\ UNCHANGED <<file_dict, tw_child_notes, tw_raised, tw_pc>>
    /\ UNCHANGED notTiddly

TiddlerConverted ==
    /\ InTiddlerLoop
    /\ ThisIteration.kind = "note"
    /\ resource_folder' = resource_folder \o ThisIteration.written
    /\ tw_warnings' = tw_warnings \o ThisIteration.warned
    /\ tw_child_notes' = Append(tw_child_notes, ThisIteration.note[1])
    /\ tiddler_index' = tiddler_index + 1
    /\ UNCHANGED <<file_dict, tw_raised, tw_pc>>
    /\ UNCHANGED notTiddly

ConvertJsonReturns ==
    /\ tw_pc = "loop"
    /\ tiddler_index > Len(file_dict)
    /\ tw_pc' = "returned"
    /\ UNCHANGED <<file_dict, tiddler_index, tw_child_notes, tw_warnings, resource_folder,
                   tw_raised>>
    /\ UNCHANGED notTiddly

TiddlyNext == TiddlerRaises \/ TiddlerSkipped \/ TiddlerConverted \/ ConvertJsonReturns

(***************************************************************************)
(* get_markdown_links (markdown_lib/common.py and common.py).  A text is a *)
(* sequence of elements: white space, a word, an image or a link.  A URL   *)
(* is a sequence of pieces, the empty string the empty sequence.           *)
(***************************************************************************)
MaxTextLen == 2

Element(tag, text, url, title) == [tag |-> tag, text |-> text, url |-> url, title |-> title]

WhiteSpace == Element("space", "", <<>>, None)

TextElements ==
    { WhiteSpace,
      Element("word", "abc", <<>>, None),
      Element("img", "abc", <<"image.png">>, None),
      Element("a", "link", <<"internal">>, None),
      Element("a", "link", <<"internal">>, Some("Example Title")),
      Element("a", "link", <<>>, Some("Example Title")) }

Texts == SeqsUpTo(TextElements, MaxTextLen)

MarkdownLink(text, url, is_image) == [text |-> text, url |-> url, is_image |-> is_image]

\* str.strip() leaves nothing
is_blank_text(text) == \A i \in DOMAIN text : text[i].tag = "space"

\* the loop over root.findall(".//img") from element k on
RECURSIVE find_images(_, _, _)
find_images(text, k, images) ==
    IF k > Len(text) THEN images
    ELSE IF text[k].tag = "img"
         THEN find_images(text, k + 1,
                  Append(images, MarkdownLink(text[k].text, text[k].url, TRUE)))
         ELSE find_images(text, k + 1, images)

\* the URL markdown_lib's LinkExtractor.run gives a link
url_with_title(link) ==
    IF link.title # None
    THEN IF link.url # <<>> THEN link.url \o <<" \"", link.title[1], "\"">>
         ELSE <<link.title[1]>>
    ELSE link.url

\* the URL common's LinkExtractor.run gives a link
legacy_url_with_title(link) ==
    IF link.title # None THEN link.url \o <<" \"", link.title[1], "\"">>
    ELSE link.url

\* the loop over root.findall(".//a") from element k on
RECURSIVE find_links(_, _, _, _)
find_links(text, k, links, legacy) ==
    IF k > Len(text) THEN links
    ELSE IF text[k].tag = "a"
         THEN find_links(text, k + 1,
                  Append(links, MarkdownLink(text[k].text,
                                    IF legacy THEN legacy_url_with_title(text[k])
                                    ELSE url_with_title(text[k]),
                                    FALSE)),
                  legacy)
         ELSE find_links(text, k + 1, links, legacy)

\* LinkExtractor.run: the attributes are set anew, then filled
run(text, legacy) ==
    Some([images |-> find_images(text, 1, <<>>), links |-> find_links(text, 1, <<>>, legacy)])

\* MD.convert(text): Markdown.convert returns at once for a blank text and
\* runs the tree processors, LinkExtractor among them, for any other
MD_convert(md, text, legacy) == IF is_blank_text(text) THEN md ELSE run(text, legacy)

LinksCall(module, text, raised, links) ==
    [module |-> module, text |-> text, raised |-> raised, links |-> links]

LinksInit ==
    /\ MD = None
    /\ legacy_MD = None
    /\ links_call = None

LinksIdle ==
    /\ MD = None
    /\ legacy_MD = None
    /\ links_call = None

\* markdown_lib.common.get_markdown_links: the lists are copied and
\* cleared; without the attributes the result is empty
GetMarkdownLinks ==
    \E text \in Texts :
        LET md == MD_convert(MD, text, FALSE)
        IN  /\ MD' = IF md = None THEN None ELSE Some([images |-> <<>>, links |-> <<>>])
            /\ links_call' =
                 Some(LinksCall("markdown_lib.common", text, None,
                                IF md = None THEN <<>> ELSE md[1].images \o md[1].links))
            /\ UNCHANGED legacy_MD
            /\ UNCHANGED notLinks

\* common.get_markdown_links: MD.images + MD.links, whatever they hold
LegacyGetMarkdownLinks ==
    \E text \in Texts :
        LET md == MD_convert(legacy_MD, text, TRUE)
        IN  /\ legacy_MD' = md
            /\ links_call' =
                 IF md = None
                 THEN Some(LinksCall("common", text, Some("AttributeError"), <<>>))
                 ELSE Some(LinksCall("common", text, None, md[1].images \o md[1].links))
            /\ UNCHANGED MD
            /\ UNCHANGED notLinks

LinksNext == GetMarkdownLinks \/ LegacyGetMarkdownLinks

(***************************************************************************)
(* get_inline_tags (markdown_lib/common.py; the one of common.py is the    *)
(* same code).  The text is a sequence of characters.                      *)
(***************************************************************************)
MaxInlineLen == 5

InlineChars == {"#", "@", "a", "b", " "}

\* the texts of the doctests, and one with a line break
DocInlineTexts ==
    { <<"#", " ", "h", "e", "a", "d", "e", "r">>,
      <<"#", "#", "#", " ", "h", "3">>,
      <<"#", "t", "a", "g">>,
      <<"#", "t", "a", "g", " ", "a", "b", "c">>,
      <<"#", "t", "a", "g", " ", "@", "a", "b", "c">>,
      <<"#", "t", "a", "g", "\n", "#", "t", "a", "g">> }

is_whitespace(char) == char \in {" ", "\t", "\n", "\r"}

\* str.split(): the words between runs of white space
RECURSIVE split_words(_, _, _)
split_words(text, k, word) ==
    IF k > Len(text) THEN (IF word = <<>> THEN <<>> ELSE <<word>>)
    ELSE IF is_whitespace(text[k])
         THEN (IF word = <<>> THEN <<>> ELSE <<word>>) \o split_words(text, k + 1, <<>>)
         ELSE split_words(text, k + 1, Append(word, text[k]))

\* the loop of get_inline_tags from word k on
RECURSIVE inline_tags_loop(_, _, _, _)
inline_tags_loop(words, k, markers, tags) ==
    IF k > Len(words) THEN tags
    ELSE LET word == words[k]
         IN  IF /\ \E char \in markers : word[1] = char
                /\ Len(word) > 1
                /\ \E i \in DOMAIN word : word[i] \notin markers
             THEN inline_tags_loop(words, k + 1, markers, tags \cup {Tail(word)})
             ELSE inline_tags_loop(words, k + 1, markers, tags)

get_inline_tags_of_any_word(text, markers) ==
    \* without the test that excludes words like "###"
    {Tail(w) : w \in {v \in Range(split_words(text, 1, <<>>)) :
                        Len(v) > 1 /\ \E char \in markers : v[1] = char}}

\* the set `tags` that get_inline_tags builds
get_inline_tags(text, markers) ==
    inline_tags_loop(split_words(text, 1, <<>>), 1, markers, {})

\* list(tags): the elements of the set in some order
RECURSIVE Orderings(_)
Orderings(S) ==
    IF S = {} THEN {<<>>}
    ELSE UNION {{<<x>> \o o : o \in Orderings(S \ {x})} : x \in S}

InlineInit ==
    /\ it_text \in SeqsUpTo(InlineChars, MaxInlineLen) \cup DocInlineTexts
    /\ start_characters \in {{"#"}, {"#", "@"}, {}}
    /\ inline_tags = None

InlineIdle ==
    /\ it_text = <<>>
    /\ start_characters = {}
    /\ inline_tags = None

GetInlineTags ==
    /\ inline_tags = None
    /\ \E tags \in Orderings(get_inline_tags(it_text, start_characters)) :
          inline_tags' = Some(tags)
    /\ UNCHANGED <<it_text, start_characters>>
    /\ UNCHANGED notInline

(***************************************************************************)
(* The Synology Note Station converter (formats/synology_note_station.py): *)
(* convert_note and deduplicate_note_title.  A title is a sequence of      *)
(* characters, a creation time [year, month, day, hour, minute].  The      *)
(* notes of this model are not in the trash and have no content.           *)
(***************************************************************************)
MaxNotes == 3

max_name_length == 50

Repeat(char, n) == [i \in 1..n |-> char]

Digits == <<"0", "1", "2", "3", "4", "5", "6", "7", "8", "9">>
TwoDigits(n) == <<Digits[((n \div 10) % 10) + 1], Digits[(n % 10) + 1]>>
FourDigits(n) == TwoDigits(n \div 100) \o TwoDigits(n % 100)

Datetime(year, month, day, hour, minute) ==
    [year |-> year, month |-> month, day |-> day, hour |-> hour, minute |-> minute]

\* created.strftime("%m-%d-%Y")
strftime_mdY(created) ==
    TwoDigits(created.month) \o <<"-">> \o TwoDigits(created.day) \o <<"-">>
    \o FourDigits(created.year)

\* created.strftime("%H%M")
strftime_HM(created) == TwoDigits(created.hour) \o TwoDigits(created.minute)

\* str[:n]
prefix(str, n) == SubSeq(str, 1, IF Len(str) < n THEN Len(str) ELSE n)

SynNote(title, created, parent_id) ==
    [title |-> title, created |-> created, parent_id |-> parent_id]

SynTitles ==
    { <<"n">>,
      <<"n", " ", "0", "1", "-", "0", "2", "-", "2", "0", "2", "4">>,
      Repeat("x", 50),
      Repeat("x", 50) \o <<"y">>,
      Repeat("x", 39) \o <<" ", "0", "1", "-", "0", "2", "-", "2", "0", "2", "4">> }

SynTimes ==
    { Datetime(2024, 1, 2, 5, 6), Datetime(2024, 1, 2, 7, 8), Datetime(2024, 3, 4, 5, 6) }

SynNotes ==
    {SynNote(title, created, "nb1") : title \in SynTitles, created \in SynTimes}
    \cup {SynNote(<<"n">>, Datetime(2024, 1, 2, 5, 6), "nb2")}

deduplicate_note_title_once(child_notes, title, created, includes_date) ==
    \* without the second look under includes_date
    IF \E i \in DOMAIN child_notes :
          prefix(child_notes[i].title, max_name_length) = prefix(title, max_name_length)
    THEN [title |-> (IF Len(title) >= max_name_length
                     THEN prefix(title, max_name_length - 11) ELSE title)
                    \o <<" ">> \o strftime_mdY(created),
          warnings |-> <<"m-d-Y">>]
    ELSE [title |-> title, warnings |-> <<>>]

\* what deduplicate_note_title makes of a title, and the warnings it logs
RECURSIVE deduplicate_note_title(_, _, _, _)
deduplicate_note_title(child_notes, title, created, includes_date) ==
    IF \E i \in DOMAIN child_notes :
          prefix(child_notes[i].title, max_name_length) = prefix(title, max_name_length)
    THEN IF includes_date
         THEN [title |-> title \o <<" ">> \o strftime_HM(created), warnings |-> <<"H-M">>]
         ELSE LET too_long == Len(title) >= max_name_length
                  truncated == IF too_long THEN prefix(title, max_name_length - 11) ELSE title
                  dated == truncated \o <<" ">> \o strftime_mdY(created)
                  again == deduplicate_note_title(child_notes, dated, created, TRUE)
              IN  [title |-> again.title,
                   warnings |-> (IF too_long THEN <<"Truncating">> ELSE <<>>)
                                \o <<"m-d-Y">> \o again.warnings]
    ELSE [title |-> title, warnings |-> <<>>]

SynologyInit ==
    /\ syn_notes \in SeqsUpTo(SynNotes, MaxNotes)
    /\ syn_index = 1
    /\ syn_child_notes = [parent_id \in {"nb1", "nb2"} |-> <<>>]
    /\ syn_warnings = <<>>

SynologyIdle ==
    /\ syn_notes = <<>>
    /\ syn_index = 1
    /\ syn_child_notes = <<>>
    /\ syn_warnings = <<>>

\* convert_note on the next note of the manifest: the title is made unique
\* and the note is appended to its parent notebook
ConvertNote ==
    /\ syn_index <= Len(syn_notes)
    /\ LET note == syn_notes[syn_index]
           parent_notebook == syn_child_notes[note.parent_id]
           deduplicated ==
               deduplicate_note_title(parent_notebook, note.title, note.created, FALSE)
       IN  /\ syn_child_notes' =
                [syn_child_notes EXCEPT ![note.parent_id] =
                    Append(@, [title |-> deduplicated.title, created |-> note.created,
                               original_id |-> syn_index])]
           /\ syn_warnings' =
                syn_warnings \o [i \in DOMAIN deduplicated.warnings |->
                                   [note |-> syn_index, warning |-> deduplicated.warnings[i]]]
    /\ syn_index' = syn_index + 1
    /\ UNCHANGED syn_notes
    /\ UNCHANGED notSynology

(***************************************************************************)
(* The legacy entry point (joplin_custom_importer.py): main and            *)
(* convert_all_inputs.  An input is [kind, fails]: `fails` says that       *)
(* converting it raises where nothing catches the exception.               *)
(***************************************************************************)
MaxLegacyInputs == 2

LegacyInput(kind, fails) == [kind |-> kind, fails |-> fails]

LegacyInputs == {LegacyInput(kind, fails) : kind \in {"file", "folder"}, fails \in BOOLEAN}

\* --app: None, or the name of a module of apps
LegacyApps == {None, Some("obsidian")}

\* conversion_function(single_input, parent) raises: convert_folder catches
\* the failure of each of its files, convert_file and the convert of an app
\* module do not
conversion_raises(single_input, app) ==
    single_input.fails /\ (app # None \/ single_input.kind = "file")

\* main has got to convert_all_inputs
may_convert_before_connecting(pc, dry) == pc \in {"start", "convert"}

may_convert(pc, dry) == pc = "convert" \/ (pc = "start" /\ dry)

LegacyInit ==
    /\ args_input \in SeqsUpTo(LegacyInputs, MaxLegacyInputs) \ {<<>>}
    /\ args_app \in LegacyApps
    /\ args_dry_run \in BOOLEAN
    /\ main_pc = "start"
    /\ single_input_index = 1
    /\ main_log = <<>>

LegacyIdle ==
    /\ args_input = <<>>
    /\ args_app = None
    /\ args_dry_run = FALSE
    /\ main_pc = "idle"
    /\ single_input_index = 1
    /\ main_log = <<>>

\* api = api_helper.get_api()
GetApi ==
    /\ main_pc = "start"
    /\ ~args_dry_run
    /\ main_pc' = "convert"
    /\ main_log' = Append(main_log, "get_api")
    /\ UNCHANGED <<args_input, args_app, args_dry_run, single_input_index>>
    /\ UNCHANGED notLegacy

\* get_api cannot connect: its exception ends main
GetApiRaises ==
    /\ main_pc = "start"
    /\ ~args_dry_run
    /\ main_pc' = "raised"
    /\ main_log' = Append(main_log, "get_api raised")
    /\ UNCHANGED <<args_input, args_app, args_dry_run, single_input_index>>
    /\ UNCHANGED notLegacy

\* one iteration of the loop of convert_all_inputs
ConvertSingleInput ==
    /\ may_convert(main_pc, args_dry_run)
    /\ single_input_index <= Len(args_input)
    /\ ~conversion_raises(args_input[single_input_index], args_app)
    /\ main_pc' = "convert"
    /\ main_log' = Append(main_log, "converted")
    /\ single_input_index' = single_input_index + 1
    /\ UNCHANGED <<args_input, args_app, args_dry_run>>
    /\ UNCHANGED notLegacy

ConvertSingleInputRaises ==
    /\ may_convert(main_pc, args_dry_run)
    /\ single_input_index <= Len(args_input)
    /\ conversion_raises(args_input[single_input_index], args_app)
    /\ main_pc' = "raised"
    /\ main_log' = Append(main_log, "conversion raised")
    /\ UNCHANGED <<args_input, args_app, args_dry_run, single_input_index>>
    /\ UNCHANGED notLegacy

\* joplin_importer.import_notebook(note_tree)
ImportNotebook ==
    /\ main_pc = "convert"
    /\ single_input_index > Len(args_input)
    /\ ~args_dry_run
    /\ main_pc' = "done"
    /\ main_log' = Append(main_log, "import_notebook")
    /\ UNCHANGED <<args_input, args_app, args_dry_run, single_input_index>>
    /\ UNCHANGED notLegacy

\* with --dry-run main returns after convert_all_inputs
ReturnWithoutImport ==
    /\ main_pc = "convert"
    /\ single_input_index > Len(args_input)
    /\ args_dry_run
    /\ main_pc' = "done"
    /\ UNCHANGED <<args_input, args_app, args_dry_run, single_input_index, main_log>>
    /\ UNCHANGED notLegacy

LegacyNext ==
    \/ GetApi
    \/ GetApiRaises
    \/ ConvertSingleInput
    \/ ConvertSingleInputRaises
    \/ ImportNotebook
    \/ ReturnWithoutImport

(***************************************************************************)
(* The Notion converter (formats/notion.py): convert_directory on a        *)
(* directory of files and empty folders.  Names and URLs are sequences of  *)
(* chunks with " ", "." and "%20" between them; the content of a file is   *)
(* its lines, each a sequence of elements.  common.MD is as in             *)
(* common.get_markdown_links above.                                        *)
(***************************************************************************)
MaxItems == 2

NotionItem(name, kind, lines) == [name |-> name, kind |-> kind, lines |-> lines]

MyPage == <<"My", " ", "Page", " ", "abcdef123456", ".", "md">>
OtherPage == <<"Other", " ", "Page", " ", "abcdef654321", ".", "md">>
Readme == <<"README", ".", "md">>
ImagePng == <<"image", ".", "png">>
SubPages == <<"My", " ", "Page", " ", "abcdef123456">>

Heading == Element("word", "# My Page", <<>>, None)

NotionLinks ==
    { Element("a", "Other Page",
              <<"Other", "%20", "Page", "%20", "abcdef654321", ".", "md">>, None),
      Element("a", "Other Page",
              <<"Other", "%20", "Page", "%20", "abcdef654321", ".", "md">>, Some("Other")),
      Element("a", "readme", <<"README", ".", "md">>, None),
      Element("a", "web", <<"https://", "example", ".", "com", "/", "a", ".", "md">>, None),
      Element("a", "mail", <<"mailto:", "a", "@", "example", ".", "com">>, None),
      Element("img", "image", <<"image", ".", "png">>, None) }

\* a title line, a blank line, then one line or none
NotionContents ==
    { <<<<Heading>>>>, <<<<Heading>>, <<>>, <<Element("word", "abc", <<>>, None)>>>> }
    \cup { <<<<Heading>>, <<>>, <<link>>>> : link \in NotionLinks }

NotionItems ==
    { NotionItem(name, "file", lines) : name \in {MyPage, OtherPage}, lines \in NotionContents }
    \cup { NotionItem(Readme, "file", <<<<Heading>>>>),
           NotionItem(ImagePng, "file", <<>>),
           NotionItem(SubPages, "dir", <<>>) }

\* the directory listings: items of different names, in any order
NotionListings ==
    { items \in SeqsUpTo(NotionItems, MaxItems) :
        \A i, j \in DOMAIN items : i # j => items[i].name # items[j].name }

\* "\n".join(lines)
RECURSIVE join_lines(_)
join_lines(lines) ==
    IF lines = <<>> THEN <<>>
    ELSE IF Len(lines) = 1 THEN lines[1]
    ELSE lines[1] \o <<WhiteSpace>> \o join_lines(Tail(lines))

\* "\n".join(text.split("\n")[2:])
body_of(lines) == join_lines(SubSeq(lines, 3, Len(lines)))

\* the last " " of a string (0: none)
RECURSIVE rfind_space(_, _)
rfind_space(str, i) ==
    IF i = 0 THEN 0
    ELSE IF str[i] = " " THEN i
    ELSE rfind_space(str, i - 1)

\* str.rsplit(" ", 1)
rsplit_space(str) ==
    LET i == rfind_space(str, Len(str))
    IN  IF i = 0 THEN <<str>> ELSE <<SubSeq(str, 1, i - 1), SubSeq(str, i + 1, Len(str))>>

\* urllib.parse.unquote
unquote(url) == [i \in DOMAIN url |-> IF url[i] = "%20" THEN " " ELSE url[i]]

is_web_link(link) == link.url # <<>> /\ link.url[1] \in {"http://", "https://"}
is_mail_link(link) == link.url # <<>> /\ link.url[1] = "mailto:"

\* link.url.endswith(".md")
endswith_md(url) == Len(url) >= 2 /\ url[Len(url) - 1] = "." /\ url[Len(url)] = "md"

\* str(link): MarkdownLink.__str__
link_str(link) ==
    (IF link.is_image THEN <<"!">> ELSE <<>>) \o <<"[", link.text, "](">> \o link.url \o <<")">>

NoteLink(original_text, original_id, title) ==
    [original_text |-> original_text, original_id |-> original_id, title |-> title]

LinkedResource(filename, original_text, title) ==
    [filename |-> filename, original_text |-> original_text, title |-> title]

\* the loop over the links of a body from link k on; `here` are the names of
\* the files of root_path
RECURSIVE notion_links_loop(_, _, _, _, _)
notion_links_loop(links, k, here, resources, note_links) ==
    IF k > Len(links)
    THEN [raised |-> None, resources |-> resources, note_links |-> note_links]
    ELSE LET link == links[k]
             unquoted_url == unquote(link.url)
         IN  IF is_web_link(link) \/ is_mail_link(link)
             THEN notion_links_loop(links, k + 1, here, resources, note_links)
             ELSE IF endswith_md(link.url)
             THEN IF Len(rsplit_space(stem(unquoted_url))) # 2
                  THEN [raised |-> Some("ValueError"), resources |-> resources,
                        note_links |-> note_links]
                  ELSE notion_links_loop(links, k + 1, here, resources,
                           Append(note_links,
                                  NoteLink(link_str(link),
                                           rsplit_space(stem(unquoted_url))[2], link.text)))
             ELSE IF unquoted_url \in here
             THEN notion_links_loop(links, k + 1, here,
                      Append(resources,
                             LinkedResource(unquoted_url, link_str(link), link.text)),
                      note_links)
             ELSE notion_links_loop(links, k + 1, here, resources, note_links)

NotionResult(kind, exc, md, made) == [kind |-> kind, exc |-> exc, md |-> md, made |-> made]

\* one iteration of the loop of convert_directory
convert_item(item, md, here) ==
    IF item.kind = "file" /\ lower(suffix(item.name)) # Ext("md")
    THEN NotionResult("continue", "", md, None)
    ELSE IF Len(rsplit_space(item.name)) # 2 \/ Len(rsplit_space(stem(item.name))) # 2
    THEN NotionResult("raise", "ValueError", md, None)
    ELSE
    LET title == rsplit_space(item.name)[1]
        id_ == rsplit_space(stem(item.name))[2]
    IN
    IF item.kind = "dir"
    THEN NotionResult("notebook", "", md, Some([title |-> title, original_id |-> id_]))
    ELSE
    LET body == body_of(item.lines)
        md_after == MD_convert(md, body, TRUE)
    IN
    IF md_after = None THEN NotionResult("raise", "AttributeError", md, None)
    ELSE
    LET found == notion_links_loop(md_after[1].images \o md_after[1].links, 1, here,
                                   <<>>, <<>>)
    IN
    IF found.raised # None THEN NotionResult("raise", found.raised[1], md_after, None)
    ELSE NotionResult("note", "", md_after,
             Some([title |-> title, body |-> body, original_id |-> id_,
                   resources |-> found.resources, note_links |-> found.note_links]))

NotionInit ==
    /\ n_items \in NotionListings
    /\ n_index = 1
    /\ n_child_notes = <<>>
    /\ n_child_notebooks = <<>>
    /\ n_MD = None
    /\ n_raised = None
    /\ n_pc = "loop"

NotionIdle ==
    /\ n_items = <<>>
    /\ n_index = 1
    /\ n_child_notes = <<>>
    /\ n_child_notebooks = <<>>
    /\ n_MD = None
    /\ n_raised = None
    /\ n_pc = "idle"

InNotionLoop == n_pc = "loop" /\ n_index <= Len(n_items)

\* the names of the files of root_path
FilesHere == {n_items[i].name : i \in {j \in DOMAIN n_items : n_items[j].kind = "file"}}

NotionIteration == convert_item(n_items[n_index], n_MD, FilesHere)

\* nothing in convert_directory or convert catches: the exception ends the
\* conversion
NotionItemRaises ==
    /\ InNotionLoop
    /\ NotionIteration.kind = "raise"
    /\ n_MD' = NotionIteration.md
    /\ n_raised' = Some(NotionIteration.exc)
    /\ n_pc' = "raised"
    /\ UNCHANGED <<n_items, n_index, n_child_notes, n_child_notebooks>>
    /\ UNCHANGED notExport

\* a file that is not markdown
NotionItemSkipped ==
    /\ InNotionLoop
    /\ NotionIteration.kind = "continue"
    /\ n_index' = n_index + 1
    /\ UNCHANGED <<n_items, n_child_notes, n_child_notebooks, n_MD, n_raised, n_pc>>
    /\ UNCHANGED notExport

\* a folder (empty here): a child notebook
NotionFolderConverted ==
    /\ InNotionLoop
    /\ NotionIteration.kind = "notebook"
    /\ n_child_notebooks' = Append(n_child_notebooks, NotionIteration.made[1])
    /\ n_index' = n_index + 1
    /\ UNCHANGED <<n_items, n_child_notes, n_MD, n_raised, n_pc>>
    /\ UNCHANGED notExport

NotionFileConverted ==
    /\ InNotionLoop
    /\ NotionIteration.kind = "note"
    /\ n_MD' = NotionIteration.md
    /\ n_child_notes' = Append(n_child_notes, NotionIteration.made[1])
    /\ n_index' = n_index + 1
    /\ UNCHANGED <<n_items, n_child_notebooks, n_raised, n_pc>>
    /\ UNCHANGED notExport

ConvertDirectoryReturns ==
    /\ n_pc = "loop"
    /\ n_index > Len(n_items)
    /\ n_pc' = "returned"
    /\ UNCHANGED <<n_items, n_index, n_child_notes, n_child_notebooks, n_MD, n_raised>>
    /\ UNCHANGED notExport

NotionNext ==
    \/ NotionItemRaises
    \/ NotionItemSkipped
    \/ NotionFolderConverted
    \/ NotionFileConverted
    \/ ConvertDirectoryReturns

(***************************************************************************)
(* DefaultConverter.handle_markdown_links (converter.py): the links of a   *)
(* body against the files next to the converted file.                      *)
(***************************************************************************)
MaxLinks == 2

HImagePng == <<"image", ".", "png">>
HNoteMd == <<"note", ".", "md">>
HSub == <<"sub">>

\* what lies next to the converted file: "missing", "dir", "image" (a file
\* puremagic gives an image/ MIME type) or "file" (any other file)
HSiblings ==
    { s \in [{HImagePng, HNoteMd, HSub} -> {"missing", "dir", "image", "file"}] :
        /\ s[HImagePng] \in {"missing", "image"}
        /\ s[HNoteMd] \in {"missing", "file"}
        /\ s[HSub] \in {"missing", "dir"} }

HElements ==
    { Element("img", "abc", HImagePng, None),
      Element("a", "link", HImagePng, None),
      Element("a", "link", HNoteMd, None),
      Element("a", "link", HNoteMd, Some("Example Title")),
      Element("a", "link", HSub, None),
      Element("a", "web", <<"https://", "example", ".", "com">>, None),
      Element("a", "mail", <<"mailto:", "a", "@", "example", ".", "com">>, None) }

HBodies == SeqsUpTo(HElements, MaxLinks)

\* markdown_lib.common.get_markdown_links(text), which leaves no link behind
markdown_links(text) ==
    LET md == MD_convert(None, text, FALSE)
    IN  IF md = None THEN <<>> ELSE md[1].images \o md[1].links

\* path / link.url
sibling(siblings, url) ==
    [name |-> url, fs |-> IF url \in DOMAIN siblings THEN siblings[url] ELSE "missing"]

\* resource_path.is_file()
resolves_to_file(resource_path) == is_file(resource_path)

\* common.is_image(resource_path)
is_image(resource_path) == resource_path.fs = "image"

HandleInit ==
    /\ h_siblings \in HSiblings
    /\ h_body \in HBodies
    /\ h_links = markdown_links(h_body)
    /\ h_index = 1
    /\ h_resources = <<>>
    /\ h_note_links = <<>>
    /\ h_pc = "loop"

HandleIdle ==
    /\ h_siblings = <<>>
    /\ h_body = <<>>
    /\ h_links = <<>>
    /\ h_index = 1
    /\ h_resources = <<>>
    /\ h_note_links = <<>>
    /\ h_pc = "idle"

InLinkLoop == h_pc = "loop" /\ h_index <= Len(h_links)

ThisLink == h_links[h_index]

ResourcePath == sibling(h_siblings, ThisLink.url)

\* a web link or a mail link: kept as it is
LinkKept ==
    /\ InLinkLoop
    /\ is_web_link(ThisLink) \/ is_mail_link(ThisLink)
    /\ h_index' = h_index + 1
    /\ UNCHANGED <<h_siblings, h_body, h_links, h_resources, h_note_links, h_pc>>
    /\ UNCHANGED notHandle

\* a link to an image next to the file
LinkIsResource ==
    /\ InLinkLoop
    /\ ~(is_web_link(ThisLink) \/ is_mail_link(ThisLink))
    /\ resolves_to_file(ResourcePath)
    /\ is_image(ResourcePath)
    /\ h_resources' = Append(h_resources,
                             LinkedResource(ResourcePath.name, link_str(ThisLink), ThisLink.text))
    /\ h_index' = h_index + 1
    /\ UNCHANGED <<h_siblings, h_body, h_links, h_note_links, h_pc>>
    /\ UNCHANGED notHandle

\* a link to another file next to the file
LinkIsNoteLink ==
    /\ InLinkLoop
    /\ ~(is_web_link(ThisLink) \/ is_mail_link(ThisLink))
    /\ resolves_to_file(ResourcePath)
    /\ ~is_image(ResourcePath)
    /\ h_note_links' = Append(h_note_links,
                              NoteLink(link_str(ThisLink), stem(ThisLink.url), ThisLink.text))
    /\ h_index' = h_index + 1
    /\ UNCHANGED <<h_siblings, h_body, h_links, h_resources, h_pc>>
    /\ UNCHANGED notHandle

\* a link to no file
LinkIsNoFile ==
    /\ InLinkLoop
    /\ ~(is_web_link(ThisLink) \/ is_mail_link(ThisLink))
    /\ ~resolves_to_file(ResourcePath)
    /\ h_index' = h_index + 1
    /\ UNCHANGED <<h_siblings, h_body, h_links, h_resources, h_note_links, h_pc>>
    /\ UNCHANGED notHandle

HandleReturns ==
    /\ h_pc = "loop"
    /\ h_index > Len(h_links)
    /\ h_pc' = "returned"
    /\ UNCHANGED <<h_siblings, h_body, h_links, h_index, h_resources, h_note_links>>
    /\ UNCHANGED notHandle

HandleNext ==
    \/ LinkKept
    \/ LinkIsResource
    \/ LinkIsNoteLink
    \/ LinkIsNoFile
    \/ HandleReturns

(***************************************************************************)
(* The walk of DefaultConverter.convert_file_or_folder, call by call: a    *)
(* stack of the folders being walked, and the trace of what was done.      *)
(***************************************************************************)
MaxEntries == 3

\* the files and folders below a folder
RECURSIVE entries_below(_)
entries_below(folder) ==
    LET below(n) == IF \E e \in folder.entries : e.name = n /\ e.kind = "dir"
                    THEN entries_below(CHOOSE e \in folder.entries : e.name = n)
                    ELSE 0
    IN  Cardinality(folder.entries) + below(<<"m">>) + below(<<"sub">>)

RECURSIVE WalkFolders(_, _)
WalkFolders(name, n) ==
    IF n = 0 THEN {Folder(name, {})}
    ELSE { f \in { Folder(name, txt \cup z \cup m \cup sub) :
                     txt \in FileChoices(<<"a", ".", "txt">>),
                     z \in {{}, {File(<<"z", ".", "txt">>, FALSE)}},
                     m \in {{}} \cup {{t} : t \in WalkFolders(<<"m">>, n - 1)},
                     sub \in {{}} \cup {{t} : t \in WalkFolders(<<"sub">>, n - 1)} } :
             entries_below(f) <= n }

WalkInputs == WalkFolders(<<"notes">>, MaxEntries)

walk_order_sorted(items) ==
    \* every item in the order of sorted()
    items

\* the order the two loops of convert_file_or_folder handle the items in:
\* the files, then the folders that were put aside
walk_order(items) ==
    SelectSeq(items, LAMBDA e : e.kind = "file") \o SelectSeq(items, LAMBDA e : e.kind # "file")

\* a call of convert_file_or_folder on a folder: where it is, its
\* new_parent, and the items it has yet to handle
Frame(path, folder) ==
    [path |-> path, new_parent |-> Notebook(stem(folder.name), <<>>, <<>>),
     pending |-> walk_order(sorted_entries(folder))]

WalkEvent(kind, path, name, appended) ==
    [kind |-> kind, path |-> path, name |-> name, appended |-> appended]

WalkInit ==
    /\ w_input \in WalkInputs
    /\ w_root_notebook = Notebook(<<"out">>, <<>>, <<>>)
    /\ w_stack = <<>>
    /\ w_events = <<>>
    /\ w_pc = "start"

WalkIdle ==
    /\ w_input = None
    /\ w_root_notebook = None
    /\ w_stack = <<>>
    /\ w_events = <<>>
    /\ w_pc = "idle"

Top == w_stack[Len(w_stack)]

\* convert: convert_file_or_folder(file_or_folder, self.root_notebook)
WalkStart ==
    /\ w_pc = "start"
    /\ w_stack' = <<Frame(<<w_input.name>>, w_input)>>
    /\ w_events' = Append(w_events, WalkEvent("enter", <<w_input.name>>, w_input.name, FALSE))
    /\ w_pc' = "walk"
    /\ UNCHANGED <<w_input, w_root_notebook>>
    /\ UNCHANGED notWalk

\* the next item is a file: convert_file_or_folder(item, new_parent)
ConvertNextFile ==
    /\ w_pc = "walk"
    /\ Top.pending # <<>>
    /\ Head(Top.pending).kind = "file"
    /\ LET item == Head(Top.pending)
           converted == convert_file_or_folder(item, Top.new_parent, <<>>).parent
       IN  /\ w_stack' = [w_stack EXCEPT ![Len(w_stack)] =
                             [@ EXCEPT !.new_parent = converted, !.pending = Tail(@)]]
           /\ w_events' = Append(w_events,
                                 WalkEvent("file", Top.path, item.name,
                                           converted # Top.new_parent))
    /\ UNCHANGED <<w_input, w_root_notebook, w_pc>>
    /\ UNCHANGED notWalk

\* the next item is a folder: convert_file_or_folder(folder, new_parent)
EnterNextFolder ==
    /\ w_pc = "walk"
    /\ Top.pending # <<>>
    /\ Head(Top.pending).kind # "file"
    /\ LET folder == Head(Top.pending)
           path == Append(Top.path, folder.name)
       IN  /\ w_stack' = Append([w_stack EXCEPT ![Len(w_stack)] = [@ EXCEPT !.pending = Tail(@)]],
                                Frame(path, folder))
           /\ w_events' = Append(w_events, WalkEvent("enter", path, folder.name, FALSE))
    /\ UNCHANGED <<w_input, w_root_notebook, w_pc>>
    /\ UNCHANGED notWalk

\* nothing is left in a folder below the input:
\* parent.child_notebooks.append(new_parent), and back to the caller
LeaveFolder ==
    /\ w_pc = "walk"
    /\ Top.pending = <<>>
    /\ Len(w_stack) > 1
    /\ w_stack' = [SubSeq(w_stack, 1, Len(w_stack) - 1) EXCEPT ![Len(w_stack) - 1] =
                      [@ EXCEPT !.new_parent.child_notebooks = Append(@, Top.new_parent)]]
    /\ w_events' = Append(w_events,
                          WalkEvent("leave", Top.path, Top.path[Len(Top.path)], TRUE))
    /\ UNCHANGED <<w_input, w_root_notebook, w_pc>>
    /\ UNCHANGED notWalk

\* nothing is left in the input: the root notebook gets new_parent, and
\* convert goes on with remove_empty_notebooks
LeaveInput ==
    /\ w_pc = "walk"
    /\ Top.pending = <<>>
    /\ Len(w_stack) = 1
    /\ w_stack' = <<>>
    /\ w_root_notebook' =
         remove_empty_notebooks(
             [w_root_notebook EXCEPT !.child_notebooks = Append(@, Top.new_parent)])
    /\ w_events' = Append(w_events,
                          WalkEvent("leave", Top.path, Top.path[Len(Top.path)], TRUE))
    /\ w_pc' = "done"
    /\ UNCHANGED w_input
    /\ UNCHANGED notWalk

WalkNext ==
    \/ WalkStart
    \/ ConvertNextFile
    \/ EnterNextFolder
    \/ LeaveFolder
    \/ LeaveInput

(***************************************************************************)
(* get_temp_folder (common.py) and its callers.  time.time() is counted in *)
(* half milliseconds; the clock advances between the calls, or does not.   *)
(***************************************************************************)
MaxTime == 4
MaxTempCalls == 3

\* int(time.time() * 1000)
milliseconds(time) == time \div 2

\* Path(tempfile.gettempdir()) / f"joplin_export_{int(time.time() * 1000)}"
get_temp_folder(time) == <<"tmp", "joplin_export_", milliseconds(time)>>

TempCall(by, path) == [by |-> by, path |-> path]

TempInit ==
    /\ t_time \in 0 .. 1
    /\ t_calls = <<>>

TempIdle ==
    /\ t_time = 0
    /\ t_calls = <<>>

\* time passes
TimePasses ==
    /\ t_time < MaxTime
    /\ t_time' = t_time + 1
    /\ UNCHANGED t_calls
    /\ UNCHANGED notTemp

\* DefaultConverter.__init__ and the TiddlyWiki Converter.__init__:
\* self.resource_folder = common.get_temp_folder()
NewResourceFolder ==
    /\ Len(t_calls) < MaxTempCalls
    /\ t_calls' = Append(t_calls, TempCall("resource_folder", get_temp_folder(t_time)))
    /\ UNCHANGED t_time
    /\ UNCHANGED notTemp

\* common.extract_zip: temp_folder = get_temp_folder()
ExtractZipToTemp ==
    /\ Len(t_calls) < MaxTempCalls
    /\ t_calls' = Append(t_calls, TempCall("extract_zip", get_temp_folder(t_time)))
    /\ UNCHANGED t_time
    /\ UNCHANGED notTemp

\* common.extract_tar: temp_folder = get_temp_folder()
ExtractTarToTemp ==
    /\ Len(t_calls) < MaxTempCalls
    /\ t_calls' = Append(t_calls, TempCall("extract_tar", get_temp_folder(t_time)))
    /\ UNCHANGED t_time
    /\ UNCHANGED notTemp

TempNext ==
    \/ TimePasses
    \/ NewResourceFolder
    \/ ExtractZipToTemp
    \/ ExtractTarToTemp

(***************************************************************************)
(* Synology Note Station: the notestation:// links of convert_note and     *)
(* handle_markdown_links.  A note of the manifest is [title, state, link]: *)
(* its id is its position, `state` says that it lies in the trash or that  *)
(* its conversion raises, `link` is the text of its one internal link or   *)
(* None.  Titles and texts are sequences of characters.                    *)
(***************************************************************************)
MaxManifest == 3

ManifestNote(title, state, link) == [title |-> title, state |-> state, link |-> link]

LinkTitles == { <<"a", "b">>, <<"b", "a">>, <<"c">> }
LinkTexts == { <<"a", "b">>, <<"b">> }

ManifestNotes ==
    { ManifestNote(title, "ok", link) :
        title \in LinkTitles, link \in {None} \cup {Some(t) : t \in LinkTexts} }
    \cup { ManifestNote(title, state, None) : title \in LinkTitles, state \in {"trash", "raises"} }

\* difflib's SequenceMatcher.find_longest_match on whole strings: the
\* longest common block, the earliest in a, then the earliest in b
longest_match(a, b) ==
    LET blocks == { m \in (DOMAIN a) \X (DOMAIN b) \X (1 .. Len(a)) :
                      /\ m[1] + m[3] - 1 <= Len(a)
                      /\ m[2] + m[3] - 1 <= Len(b)
                      /\ SubSeq(a, m[1], m[1] + m[3] - 1) = SubSeq(b, m[2], m[2] + m[3] - 1) }
    IN  IF blocks = {} THEN <<0, 0, 0>>
        ELSE CHOOSE m \in blocks :
                 \A o \in blocks :
                     \/ m[3] > o[3]
                     \/ m[3] = o[3] /\ m[1] < o[1]
                     \/ m[3] = o[3] /\ m[1] = o[1] /\ m[2] <= o[2]

\* the summed size of SequenceMatcher.get_matching_blocks
RECURSIVE matches(_, _)
matches(a, b) ==
    LET m == longest_match(a, b)
    IN  IF m[3] = 0 THEN 0
        ELSE m[3] + matches(SubSeq(a, 1, m[1] - 1), SubSeq(b, 1, m[2] - 1))
                  + matches(SubSeq(a, m[1] + m[3], Len(a)), SubSeq(b, m[2] + m[3], Len(b)))

\* SequenceMatcher(None, a, b).ratio(): 2.0 * matches / (len(a) + len(b)),
\* kept as a fraction
ratio(a, b) ==
    IF Len(a) + Len(b) = 0 THEN [num |-> 1, den |-> 1]
    ELSE [num |-> 2 * matches(a, b), den |-> Len(a) + Len(b)]

greater(r, s) == r.num * s.den > s.num * r.den

\* get_match_ratio of handle_markdown_links
get_match_ratio(id_, link_text, id_title_map) == ratio(link_text, id_title_map[id_])

max_keeping_last(ids, link_text, id_title_map, k, best) ==
    \* the later of two ids of the same ratio
    LET key(id_) == get_match_ratio(id_, link_text, id_title_map)
        RECURSIVE Loop(_, _)
        Loop(i, b) == IF i > Len(ids) THEN b
                      ELSE Loop(i + 1, IF ~greater(key(b), key(ids[i])) THEN ids[i] ELSE b)
    IN  Loop(k, best)

\* max(note_id_title_map, key=get_match_ratio) from id k on: the first of
\* the ids of the greatest ratio
max(ids, link_text, id_title_map, k, best) ==
    LET key(id_) == get_match_ratio(id_, link_text, id_title_map)
        RECURSIVE Loop(_, _)
        Loop(i, b) == IF i > Len(ids) THEN b
                      ELSE Loop(i + 1, IF greater(key(ids[i]), key(b)) THEN ids[i] ELSE b)
    IN  Loop(k, best)

\* note_id_title_map: the titles of all the notes of the manifest, by id
note_id_title_map(manifest) == [id \in DOMAIN manifest |-> manifest[id].title]

best_match_id_keeping_last(link_text, id_title_map) ==
    LET ids == [i \in DOMAIN id_title_map |-> i]
    IN  max_keeping_last(ids, link_text, id_title_map, 2, ids[1])

\* handle_markdown_links on a notestation:// link
best_match_id(link_text, id_title_map) ==
    LET ids == [i \in DOMAIN id_title_map |-> i]
    IN  max(ids, link_text, id_title_map, 2, ids[1])

SynLinksInit ==
    /\ sl_manifest \in {m \in SeqsUpTo(ManifestNotes, MaxManifest) : m # <<>>}
    /\ sl_index = 1
    /\ sl_notes = <<>>
    /\ sl_log = <<>>

SynLinksIdle ==
    /\ sl_manifest = <<>>
    /\ sl_index = 1
    /\ sl_notes = <<>>
    /\ sl_log = <<>>

\* convert_note returns at once for a note in the trash
IgnoreNoteInTrash ==
    /\ sl_index <= Len(sl_manifest)
    /\ sl_manifest[sl_index].state = "trash"
    /\ sl_log' = Append(sl_log, <<"ignored", sl_index>>)
    /\ sl_index' = sl_index + 1
    /\ UNCHANGED <<sl_manifest, sl_notes>>
    /\ UNCHANGED notSynLinks

\* the conversion raises: common.catch_all_exceptions logs it, and convert
\* goes on with the next note
ConvertNoteRaises ==
    /\ sl_index <= Len(sl_manifest)
    /\ sl_manifest[sl_index].state = "raises"
    /\ sl_log' = Append(sl_log, <<"failed", sl_index>>)
    /\ sl_index' = sl_index + 1
    /\ UNCHANGED <<sl_manifest, sl_notes>>
    /\ UNCHANGED notSynLinks

\* convert_note: the note with its note_links is appended to its notebook
ConvertNoteWithLinks ==
    /\ sl_index <= Len(sl_manifest)
    /\ sl_manifest[sl_index].state = "ok"
    /\ LET note == sl_manifest[sl_index]
           note_links ==
               IF note.link = None THEN <<>>
               ELSE <<[text |-> note.link[1],
                       original_id |-> best_match_id(note.link[1],
                                                     note_id_title_map(sl_manifest))]>>
       IN  sl_notes' = Append(sl_notes, [original_id |-> sl_index, title |-> note.title,
                                         note_links |-> note_links])
    /\ sl_index' = sl_index + 1
    /\ UNCHANGED <<sl_manifest, sl_log>>
    /\ UNCHANGED notSynLinks

SynLinksNext ==
    \/ IgnoreNoteInTrash
    \/ ConvertNoteRaises
    \/ ConvertNoteWithLinks

(***************************************************************************)
(* Synology Note Station: attachments.  convert_multiple converts every    *)
(* input with the same converter, whose available_resources is created in  *)
(* __init__.  An input is [files, notes]: the md5s of its file_<md5> files  *)
(* in sorted order, and its notes; a note is [attachment, links].          *)
(***************************************************************************)
MaxSynInputs == 2

NoteAttachment(md5, ref, name) == [md5 |-> md5, ref |-> ref, name |-> name]

\* the dataclass Attachment; the filename lies under the root_path of its input
Attachment(filename, md5) == [filename |-> filename, md5 |-> md5, refs |-> <<>>, titles |-> <<>>]

AttachingNote(attachment, links) == [attachment |-> attachment, links |-> links]

Ref1 == <<"r1">>
Ref2 == <<"r2">>

SynNoteShapes ==
    { AttachingNote(<<NoteAttachment("m1", Some(Ref1), "n1")>>,
              <<MarkdownLink(<<>>, Ref1, TRUE)>>),
      AttachingNote(<<NoteAttachment("m1", Some(Ref1), "n1"), NoteAttachment("m1", Some(Ref2), "n2")>>,
              <<MarkdownLink(<<"t">>, Ref1, FALSE),
                MarkdownLink(<<"c">>, <<"notestation://", "x">>, FALSE)>>),
      AttachingNote(<<NoteAttachment("m1", Some(Ref1), "n1"), NoteAttachment("m2", Some(Ref1), "n2")>>,
              <<MarkdownLink(<<>>, Ref1, FALSE)>>),
      AttachingNote(<<NoteAttachment("m1", None, "n1")>>,
              <<MarkdownLink(<<>>, Ref2, FALSE)>>),
      AttachingNote(<<>>,
              <<MarkdownLink(<<>>, Ref1, TRUE), MarkdownLink(<<"t">>, <<"https://", "x">>, FALSE)>>) }

\* the note with an attachment of md5 m2
SecondFileNote ==
    AttachingNote(<<NoteAttachment("m1", Some(Ref1), "n1"), NoteAttachment("m2", Some(Ref1), "n2")>>,
                  <<MarkdownLink(<<>>, Ref1, FALSE)>>)

SynInputs ==
    { [files |-> <<"m1">>, notes |-> notes] :
        notes \in { <<n>> : n \in SynNoteShapes }
                  \cup { <<n, k>> : n \in SynNoteShapes, k \in SynNoteShapes } }
    \cup { [files |-> <<"m1", "m2">>, notes |-> notes] :
             notes \in { <<SecondFileNote>>, <<SecondFileNote, SecondFileNote>> } }

\* the index of the first file of available_resources with this md5, or 0
first_with_md5(available, md5) ==
    IF \E i \in DOMAIN available : available[i].md5 = md5
    THEN CHOOSE i \in DOMAIN available :
             /\ available[i].md5 = md5
             /\ \A j \in 1 .. (i - 1) : available[j].md5 # md5
    ELSE 0

\* map_resources_by_hash from attachment k on: the available_resources it
\* leaves and the resources it returns
RECURSIVE map_resources_by_hash(_, _, _, _)
map_resources_by_hash(available, attachment, k, resources) ==
    IF k > Len(attachment) THEN [available |-> available, resources |-> resources]
    ELSE LET note_resource == attachment[k]
             i == first_with_md5(available, note_resource.md5)
         IN  IF i = 0 THEN map_resources_by_hash(available, attachment, k + 1, resources)
             ELSE IF note_resource.ref # None
             THEN map_resources_by_hash(
                      [available EXCEPT ![i].refs = Append(@, note_resource.ref[1]),
                                        ![i].titles = Append(@, note_resource.name)],
                      attachment, k + 1, resources)
             ELSE map_resources_by_hash(
                      available, attachment, k + 1,
                      Append(resources,
                             LinkedResource(available[i].filename, None, note_resource.name)))

startswith_notestation(url) == url # <<>> /\ url[1] = "notestation://"

\* the resources of available_resources that have the url among their refs
matched_resources(available, url) ==
    SelectSeq(available, LAMBDA res : \E r \in DOMAIN res.refs : res.refs[r] = url)

\* one Resource for every title of the matched resource
RECURSIVE resources_of_titles(_, _, _, _)
resources_of_titles(resource, link, k, resources) ==
    IF k > Len(resource.titles) THEN resources
    ELSE resources_of_titles(
             resource, link, k + 1,
             Append(resources,
                    LinkedResource(resource.filename, Some(link_str(link)),
                                   IF link.text # <<>> THEN link.text ELSE resource.titles[k])))

LinksResult(resources, note_links, logged) ==
    [resources |-> resources, note_links |-> note_links, logged |-> logged]

syn_links_resolving_first_match(available, links, k, id_title_map, result) ==
    \* a link of several matches is resolved to the first of them
    LET RECURSIVE Loop(_, _)
        Loop(i, r) ==
            IF i > Len(links) THEN r
            ELSE LET link == links[i]
                     matched == matched_resources(available, link.url)
                 IN  IF is_web_link(link) \/ is_mail_link(link) \/ startswith_notestation(link.url)
                         THEN Loop(i + 1, r)
                     ELSE IF Len(matched) = 0
                         THEN Loop(i + 1, [r EXCEPT !.logged = Append(@, <<link_str(link), 0>>)])
                     ELSE Loop(i + 1, [r EXCEPT !.resources =
                                           resources_of_titles(matched[1], link, 1, @)])
    IN  Loop(k, result)

\* handle_markdown_links of the Synology converter from link k on; `logged`
\* are the links it logged with the number of their matches
RECURSIVE syn_handle_markdown_links(_, _, _, _, _)
syn_handle_markdown_links(available, links, k, id_title_map, result) ==
    IF k > Len(links) THEN result
    ELSE LET link == links[k]
             matched == matched_resources(available, link.url)
         IN  IF is_web_link(link) \/ is_mail_link(link)
                 THEN syn_handle_markdown_links(available, links, k + 1, id_title_map, result)
             ELSE IF startswith_notestation(link.url)
                 THEN syn_handle_markdown_links(
                          available, links, k + 1, id_title_map,
                          [result EXCEPT !.note_links =
                              Append(@, NoteLink(link_str(link),
                                                 best_match_id(link.text, id_title_map),
                                                 link.text))])
             ELSE IF Len(matched) # 1
                 THEN syn_handle_markdown_links(
                          available, links, k + 1, id_title_map,
                          [result EXCEPT !.logged = Append(@, <<link_str(link), Len(matched)>>)])
             ELSE syn_handle_markdown_links(
                      available, links, k + 1, id_title_map,
                      [result EXCEPT !.resources = resources_of_titles(matched[1], link, 1, @)])

\* convert_note of a note that is neither in the trash nor fails: the
\* available_resources it leaves, the note it appends and what it logged
syn_convert_note(available, note, note_id, id_title_map) ==
    LET mapped == map_resources_by_hash(available, note.attachment, 1, <<>>)
        handled == syn_handle_markdown_links(mapped.available, note.links, 1, id_title_map,
                                             LinksResult(<<>>, <<>>, <<>>))
    IN  [available |-> mapped.available,
         note |-> [original_id |-> note_id,
                   links |-> note.links,
                   resources |-> mapped.resources \o handled.resources,
                   note_links |-> handled.note_links],
         logged |-> handled.logged]

\* the Attachments that convert appends for the files of an input
files_of_input(input, root) ==
    [i \in DOMAIN input.files |-> Attachment(<<root, input.files[i]>>, input.files[i])]

\* all the notes of this area have the same title
syn_id_title_map(input) == [id \in DOMAIN input.notes |-> <<"c">>]

AttachInit ==
    /\ sa_inputs \in {s \in SeqsUpTo(SynInputs, MaxSynInputs) : s # <<>>}
    /\ sa_input_index = 1
    /\ sa_note_index = 0
    /\ sa_available = <<>>
    /\ sa_notebooks = <<>>
    /\ sa_root = <<>>
    /\ sa_logged = <<>>

AttachIdle ==
    /\ sa_inputs = <<>>
    /\ sa_input_index = 1
    /\ sa_note_index = 0
    /\ sa_available = <<>>
    /\ sa_notebooks = <<>>
    /\ sa_root = <<>>
    /\ sa_logged = <<>>

\* convert_multiple takes the next input: a new root notebook, and convert
\* appends the files of the input to available_resources
SynConvertStarts ==
    /\ sa_input_index <= Len(sa_inputs)
    /\ sa_note_index = 0
    /\ sa_root' = <<>>
    /\ sa_available' = sa_available \o files_of_input(sa_inputs[sa_input_index], sa_input_index)
    /\ sa_note_index' = 1
    /\ UNCHANGED <<sa_inputs, sa_input_index, sa_notebooks, sa_logged>>
    /\ UNCHANGED notAttach

\* convert calls convert_note for the next note of the manifest
SynConvertNote ==
    /\ sa_input_index <= Len(sa_inputs)
    /\ sa_note_index \in DOMAIN sa_inputs[sa_input_index].notes
    /\ LET input == sa_inputs[sa_input_index]
           done == syn_convert_note(sa_available, input.notes[sa_note_index], sa_note_index,
                                    syn_id_title_map(input))
       IN  /\ sa_available' = done.available
           /\ sa_root' = Append(sa_root, done.note)
           /\ sa_logged' = done.logged
    /\ sa_note_index' = sa_note_index + 1
    /\ UNCHANGED <<sa_inputs, sa_input_index, sa_notebooks>>
    /\ UNCHANGED notAttach

\* convert returns, and convert_multiple appends the root notebook
SynConvertReturns ==
    /\ sa_input_index <= Len(sa_inputs)
    /\ sa_note_index > Len(sa_inputs[sa_input_index].notes)
    /\ sa_notebooks' = Append(sa_notebooks, sa_root)
    /\ sa_input_index' = sa_input_index + 1
    /\ sa_note_index' = 0
    /\ UNCHANGED <<sa_inputs, sa_available, sa_root, sa_logged>>
    /\ UNCHANGED notAttach

AttachNext ==
    \/ SynConvertStarts
    \/ SynConvertNote
    \/ SynConvertReturns

(***************************************************************************)
(* Specifications                                                          *)
(***************************************************************************)
Init ==
    MultiInit /\ PruneIdle /\ InputIdle /\ DefaultIdle /\ TagsIdle /\
    TiddlyIdle /\ LinksIdle /\ InlineIdle /\ SynologyIdle /\ LegacyIdle /\
    NotionIdle /\ HandleIdle /\ WalkIdle /\ TempIdle /\ SynLinksIdle /\
    AttachIdle
Spec == Init /\ [][MultiNext]_vars

InitPrune ==
    PruneInit /\ InputIdle /\ MultiIdle /\ DefaultIdle /\ TagsIdle /\
    TiddlyIdle /\ LinksIdle /\ InlineIdle /\ SynologyIdle /\ LegacyIdle /\
    NotionIdle /\ HandleIdle /\ WalkIdle /\ TempIdle /\ SynLinksIdle /\
    AttachIdle
SpecPrune == InitPrune /\ [][RemoveEmptyNotebooks]_vars

InitInput ==
    InputInit /\ PruneIdle /\ MultiIdle /\ DefaultIdle /\ TagsIdle /\
    TiddlyIdle /\ LinksIdle /\ InlineIdle /\ SynologyIdle /\ LegacyIdle /\
    NotionIdle /\ HandleIdle /\ WalkIdle /\ TempIdle /\ SynLinksIdle /\
    AttachIdle
SpecInput == InitInput /\ [][InputNext]_vars

InitDefault ==
    DefaultInit /\ PruneIdle /\ InputIdle /\ MultiIdle /\ TagsIdle /\
    TiddlyIdle /\ LinksIdle /\ InlineIdle /\ SynologyIdle /\ LegacyIdle /\
    NotionIdle /\ HandleIdle /\ WalkIdle /\ TempIdle /\ SynLinksIdle /\
    AttachIdle
SpecDefault == InitDefault /\ [][DefaultConvert]_vars

InitTags ==
    TagsInit /\ PruneIdle /\ InputIdle /\ MultiIdle /\ DefaultIdle /\
    TiddlyIdle /\ LinksIdle /\ InlineIdle /\ SynologyIdle /\ LegacyIdle /\
    NotionIdle /\ HandleIdle /\ WalkIdle /\ TempIdle /\ SynLinksIdle /\
    AttachIdle
SpecTags == InitTags /\ [][TagsNext]_vars

InitTiddly ==
    TiddlyInit /\ PruneIdle /\ InputIdle /\ MultiIdle /\ DefaultIdle /\
    TagsIdle /\ LinksIdle /\ InlineIdle /\ SynologyIdle /\ LegacyIdle /\
    NotionIdle /\ HandleIdle /\ WalkIdle /\ TempIdle /\ SynLinksIdle /\
    AttachIdle
SpecTiddly == InitTiddly /\ [][TiddlyNext]_vars

InitLinks ==
    LinksInit /\ PruneIdle /\ InputIdle /\ MultiIdle /\ DefaultIdle /\
    TagsIdle /\ TiddlyIdle /\ InlineIdle /\ SynologyIdle /\ LegacyIdle /\
    NotionIdle /\ HandleIdle /\ WalkIdle /\ TempIdle /\ SynLinksIdle /\
    AttachIdle
SpecLinks == InitLinks /\ [][LinksNext]_vars

InitInline ==
    InlineInit /\ PruneIdle /\ InputIdle /\ MultiIdle /\ DefaultIdle /\
    TagsIdle /\ TiddlyIdle /\ LinksIdle /\ SynologyIdle /\ LegacyIdle /\
    NotionIdle /\ HandleIdle /\ WalkIdle /\ TempIdle /\ SynLinksIdle /\
    AttachIdle
SpecInline == InitInline /\ [][GetInlineTags]_vars

InitSynology ==
    SynologyInit /\ InlineIdle /\ PruneIdle /\ InputIdle /\ MultiIdle /\
    DefaultIdle /\ TagsIdle /\ TiddlyIdle /\ LinksIdle /\ LegacyIdle /\
    NotionIdle /\ HandleIdle /\ WalkIdle /\ TempIdle /\ SynLinksIdle /\
    AttachIdle
SpecSynology == InitSynology /\ [][ConvertNote]_vars

InitLegacy ==
    LegacyInit /\ SynologyIdle /\ InlineIdle /\ PruneIdle /\ InputIdle /\
    MultiIdle /\ DefaultIdle /\ TagsIdle /\ TiddlyIdle /\ LinksIdle /\
    NotionIdle /\ HandleIdle /\ WalkIdle /\ TempIdle /\ SynLinksIdle /\
    AttachIdle
SpecLegacy == InitLegacy /\ [][LegacyNext]_vars

InitNotion ==
    NotionInit /\ LegacyIdle /\ SynologyIdle /\ InlineIdle /\ PruneIdle /\
    InputIdle /\ MultiIdle /\ DefaultIdle /\ TagsIdle /\ TiddlyIdle /\
    LinksIdle /\ HandleIdle /\ WalkIdle /\ TempIdle /\ SynLinksIdle /\
    AttachIdle
SpecNotion == InitNotion /\ [][NotionNext]_vars

InitHandle ==
    HandleInit /\ NotionIdle /\ LegacyIdle /\ SynologyIdle /\ InlineIdle /\
    PruneIdle /\ InputIdle /\ MultiIdle /\ DefaultIdle /\ TagsIdle /\
    TiddlyIdle /\ LinksIdle /\ WalkIdle /\ TempIdle /\ SynLinksIdle /\
    AttachIdle
SpecHandle == InitHandle /\ [][HandleNext]_vars

InitWalk ==
    WalkInit /\ HandleIdle /\ NotionIdle /\ LegacyIdle /\ SynologyIdle /\
    InlineIdle /\ PruneIdle /\ InputIdle /\ MultiIdle /\ DefaultIdle /\
    TagsIdle /\ TiddlyIdle /\ LinksIdle /\ TempIdle /\ SynLinksIdle /\
    AttachIdle
SpecWalk == InitWalk /\ [][WalkNext]_vars

InitTemp ==
    TempInit /\ WalkIdle /\ HandleIdle /\ NotionIdle /\ LegacyIdle /\
    SynologyIdle /\ InlineIdle /\ PruneIdle /\ InputIdle /\ MultiIdle /\
    DefaultIdle /\ TagsIdle /\ TiddlyIdle /\ LinksIdle /\ SynLinksIdle /\
    AttachIdle
SpecTemp == InitTemp /\ [][TempNext]_vars

InitSynLinks ==
    SynLinksInit /\ TempIdle /\ WalkIdle /\ HandleIdle /\ NotionIdle /\
    LegacyIdle /\ SynologyIdle /\ InlineIdle /\ PruneIdle /\ InputIdle /\
    MultiIdle /\ DefaultIdle /\ TagsIdle /\ TiddlyIdle /\ LinksIdle /\
    AttachIdle
SpecSynLinks == InitSynLinks /\ [][SynLinksNext]_vars

InitAttach ==
    AttachInit /\ SynLinksIdle /\ TempIdle /\ WalkIdle /\ HandleIdle /\
    NotionIdle /\ LegacyIdle /\ SynologyIdle /\ InlineIdle /\ PruneIdle /\
    InputIdle /\ MultiIdle /\ DefaultIdle /\ TagsIdle /\ TiddlyIdle /\
    LinksIdle
SpecAttach == InitAttach /\ [][AttachNext]_vars

(***************************************************************************)
(* prepare_input and has_valid_format                                      *)
(***************************************************************************)
\* the lower-cased name ends with extension `ext` and has more before it
NameHasExtension(name, ext) ==
    /\ Len(name) > Len(ext)
    /\ SubSeq(lower(name), Len(name) - Len(ext) + 1, Len(name)) = ext

TarExtensions == {Ext("jex"), Ext("tgz"), <<".", "tar", ".", "gz">>}
ZipExtensions == {Ext("apkg"), Ext("nsx"), Ext("zip"), Ext("zkn3")}
BundleExtensions == {Ext("bear2bk"), Ext("textpack")}

HasOneOf(name, exts) == \E e \in exts : NameHasExtension(name, e)

\* C3: BaseConverter.prepare_input dispatches on the extension: a .jex, .tgz
\* or .tar.gz archive is untarred into a temporary folder, an .apkg, .nsx,
\* .zip or .zkn3 archive is unzipped into one, a .bear2bk or .textpack
\* archive is unzipped and its single child folder returned, and any other
\* input comes back unchanged.
C3_PrepareInputDispatch ==
    (root_path # None /\ in_conv.prepare = "base") =>
        LET name == input_.name
            got == root_path[1]
        IN  /\ (HasOneOf(name, TarExtensions) /\ input_.fs = "tar") =>
                   got = TempFolder("untar", input_, FALSE)
            /\ (HasOneOf(name, ZipExtensions)
                   /\ input_.fs \in {"zip", "zip_single_folder", "zip_of_zips"}) =>
                   got = TempFolder("unzip", input_, FALSE)
            /\ (HasOneOf(name, BundleExtensions) /\ input_.fs = "zip_single_folder") =>
                   got = TempFolder("unzip", input_, TRUE)
            /\ ~HasOneOf(name, TarExtensions \cup ZipExtensions \cup BundleExtensions) =>
                   got = input_

\* C4: has_valid_format is true exactly when the lower-cased extension of
\* the input is one of the declared accepted_extensions, or these are the
\* wildcard, or accept_folder is set and the input is a directory; with
\* accepted_extensions undeclared only the folder rule makes it true.
C4_HasValidFormatIff ==
    in_valid # None =>
        LET declared == in_conv.accepted_extensions # Undeclared
            by_extension ==
                declared /\ \E i \in DOMAIN in_conv.accepted_extensions :
                    NameHasExtension(input_.name, in_conv.accepted_extensions[i])
            by_wildcard == in_conv.accepted_extensions = Wildcard
            by_folder == in_conv.accept_folder /\ input_.fs = "dir"
        IN  /\ in_valid[1] = (by_extension \/ by_wildcard \/ by_folder)
            /\ ~declared => (in_valid[1] = by_folder)

\* an upper-case extension of the accepted set was accepted
C4_Witness ==
    /\ in_valid = Some(TRUE)
    /\ in_conv = NotionConverter
    /\ input_.name = <<"a", ".", "ZIP">>
    /\ input_.fs # "dir"

(***************************************************************************)
(* convert_multiple                                                        *)
(***************************************************************************)
\* C2: an input that does not exist, or whose format the converter does not
\* accept, is skipped with a warning: no exception leaves convert_multiple
\* for it and convert is not called on it.
C2_MissingOrInvalidIsSkipped ==
    \A i \in DOMAIN outcome :
        LET f == files_or_folders[i]
        IN  (~exists(f) \/ ~has_valid_format(cm_conv, f)) =>
                /\ outcome[i] \in {"skipped_missing", "skipped_format"}
                /\ (i - 1) \in Range(warnings)

\* the indexes (from 0) of the inputs that exist and have an accepted format
ConvertibleIndexes ==
    LET Convertible(i) ==
            /\ exists(files_or_folders[i + 1])
            /\ has_valid_format(cm_conv, files_or_folders[i + 1])
    IN  SelectSeq([k \in 1..Len(files_or_folders) |-> k - 1], Convertible)

ExpectedTitle(i) ==
    IF Len(files_or_folders) = 1 THEN <<"out">> ELSE <<"out", " ", ToString(i)>>

\* C5: convert_multiple returns, in input order, one root notebook per
\* converted input and none for a skipped one; every root is an object of
\* its own, holds what convert made of its input, and is titled with the
\* output folder's name, followed by " <index>" unless there is one input.
C5_ReturnsOneRootPerConvertedInput ==
    cm_pc = "returned" =>
        /\ Len(notebooks) = Len(ConvertibleIndexes)
        /\ \A k \in DOMAIN notebooks :
              LET i == ConvertibleIndexes[k]
              IN  /\ notebooks[k].title = ExpectedTitle(i)
                  /\ notebooks[k].child_notes = <<[source |-> files_or_folders[i + 1].name]>>
        /\ \A k, l \in DOMAIN notebooks : notebooks[k].id = notebooks[l].id => k = l

\* of two inputs the first was skipped and the second converted
C5_Witness ==
    /\ cm_pc = "returned"
    /\ Len(files_or_folders) = 2
    /\ outcome = <<"skipped_missing", "converted">>
    /\ Len(notebooks) = 1
    /\ notebooks[1].title = <<"out", " ", "1">>

(***************************************************************************)
(* The default converter                                                   *)
(***************************************************************************)
HasExtension(name) == "." \in Range(name)

\* a name of the form <stem>.<extension> without its last two parts
NameWithoutExtension(name) == SubSeq(name, 1, Len(name) - 2)

RECURSIVE Concat(_)
Concat(seqs) == IF seqs = <<>> THEN <<>> ELSE Head(seqs) \o Concat(Tail(seqs))

\* a file is "plain" (no extension), "good" (an extension, and it converts)
\* or "bad" (an extension, and converting it raises)
FileClass(f) ==
    IF ~HasExtension(f.name) THEN "plain" ELSE IF f.fails THEN "bad" ELSE "good"

\* the files below `item` (itself included) of class Test, in the order of
\* the walk: the files of a folder by name, then its folders
RECURSIVE FilesOf(_, _)
FilesOf(item, Test) ==
    IF item.kind = "file"
    THEN IF FileClass(item) = Test THEN <<item>> ELSE <<>>
    ELSE LET HasFile(n) == \E e \in item.entries : e.name = n /\ e.kind = "file"
             HasFolder(n) == \E e \in item.entries : e.name = n /\ e.kind = "dir"
             names == SelectSeq(NameOrder, HasFile) \o SelectSeq(NameOrder, HasFolder)
         IN  Concat([i \in DOMAIN names |->
                        FilesOf(CHOOSE e \in item.entries : e.name = names[i], Test)])

RECURSIVE AllNotes(_)
AllNotes(nb) ==
    nb.child_notes \o Concat([i \in DOMAIN nb.child_notebooks |-> AllNotes(nb.child_notebooks[i])])

LogEntries(kind) ==
    LET OfKind(entry) == entry[1] = kind
        entries == SelectSeq(d_log, OfKind)
    IN  [i \in DOMAIN entries |-> entries[i][2]]

NamesOf(files) == [i \in DOMAIN files |-> files[i].name]

\* C7: a file without extension yields no note, only a log entry, and no
\* error: convert ends normally, the notes of the tree are those of the
\* files that have an extension and convert, and every such sibling was
\* tried.
C7_NoExtensionIsIgnored ==
    d_pc = "done" =>
        LET notes == AllNotes(d_root_notebook)
            good == FilesOf(d_input, "good")
        IN  /\ [i \in DOMAIN notes |-> notes[i].title]
                  = [i \in DOMAIN good |-> NameWithoutExtension(good[i].name)]
            /\ LogEntries("ignored") = NamesOf(FilesOf(d_input, "plain"))
            /\ LogEntries("ok") = NamesOf(good)
            /\ LogEntries("fail") = NamesOf(FilesOf(d_input, "bad"))

\* a folder with a file without extension and a text file beside it
C7_Witness ==
    /\ d_pc = "done"
    /\ d_input = Folder(<<"notes">>, {File(<<"README">>, FALSE), File(<<"a", ".", "txt">>, FALSE)})
    /\ Len(AllNotes(d_root_notebook)) = 1
    /\ AllNotes(d_root_notebook)[1].title = <<"a">>
    /\ <<"ignored", <<"README">> >> \in Range(d_log)

\* a folder with one plain .txt file and one empty sub-folder
TwoLevelFolder ==
    Folder(<<"notes">>, {File(<<"a", ".", "txt">>, FALSE), Folder(<<"sub">>, {})})

\* C8 as stated: converting the two-level folder and pruning yields a tree
\* with exactly one note and zero child notebooks.
C8_OneNoteNoChildNotebooks ==
    (d_pc = "done" /\ d_input = TwoLevelFolder) =>
        /\ NoteCount(d_root_notebook) = 1
        /\ Len(d_root_notebook.child_notebooks) = 0

\* C8 (amended): converting the two-level folder and pruning yields a root
\* notebook without notes of its own whose only child notebook is that of
\* the converted folder, which holds exactly one note and zero child
\* notebooks: the notebook of the empty sub-folder is gone.
C8_OneNoteInFolderNotebook ==
    (d_pc = "done" /\ d_input = TwoLevelFolder) =>
        /\ NoteCount(d_root_notebook) = 1
        /\ d_root_notebook.child_notes = <<>>
        /\ Len(d_root_notebook.child_notebooks) = 1
        /\ LET nb == d_root_notebook.child_notebooks[1]
           IN  /\ nb.title = <<"notes">>
               /\ Len(nb.child_notes) = 1
               /\ nb.child_notes[1].title = <<"a">>
               /\ nb.child_notebooks = <<>>

C8_Witness ==
    /\ d_pc = "done"
    /\ d_input = TwoLevelFolder
    /\ NoteCount(d_root_notebook) = 1
    /\ <<"entering folder", <<"sub">> >> \in Range(d_log)

(***************************************************************************)
(* split_tags                                                              *)
(***************************************************************************)
\* `parts` joined by single spaces
RECURSIVE JoinWithSpaces(_)
JoinWithSpaces(parts) ==
    IF parts = <<>> THEN <<>>
    ELSE IF Len(parts) = 1 THEN parts[1]
    ELSE parts[1] \o <<" ">> \o JoinWithSpaces(Tail(parts))

\* a non-empty token without space or bracket
IsPlainToken(str) ==
    /\ str # <<>>
    /\ \A i \in DOMAIN str : str[i] \notin {" ", "[", "]"}

\* a tag string made of plain tokens with one space between two of them
IsPlainTagString(str) ==
    /\ str # <<>>
    /\ \A i \in DOMAIN str : str[i] \notin {"[", "]"}
    /\ str[1] # " " /\ str[Len(str)] # " "
    /\ \A i \in 1..(Len(str) - 1) : ~(str[i] = " " /\ str[i + 1] = " ")

TiddlerIsMalformed(tiddler) ==
    \/ tiddler.title = None
    \/ /\ tiddler.type # None
       /\ tiddler.type[1] # Mime("image", "svg+xml")
       /\ tiddler.type[1][1] \in {"image", "audio"} \/ tiddler.type[1] = Mime("application", "pdf")
       /\ tiddler.text = Some("hello")
    \/ tiddler.created = Some("2024-01-02")
    \/ tiddler.modified = Some("2024-01-02")

\* a tiddler no note is made of
TiddlerIsLeftOut(tiddler) ==
    \/ tiddler.type = Some(Mime("image", "svg+xml"))
    \/ tiddler.tags = Some(SpecialTag)

\* the titles of the tiddlers from position k on that are converted
RECURSIVE TitlesToConvert(_, _)
TitlesToConvert(tiddlers, k) ==
    IF k > Len(tiddlers) THEN <<>>
    ELSE IF TiddlerIsMalformed(tiddlers[k]) \/ TiddlerIsLeftOut(tiddlers[k])
         THEN TitlesToConvert(tiddlers, k + 1)
         ELSE <<tiddlers[k].title[1]>> \o TitlesToConvert(tiddlers, k + 1)

\* C6: a failure while converting one tiddler is confined to its iteration:
\* no exception leaves the loop of convert_json, and when it returns a note
\* was made of every tiddler that did not fail (and is not left out).
C6_FailureIsConfinedToItsIteration ==
    /\ tw_pc # "raised"
    /\ tw_pc = "returned" =>
         [i \in DOMAIN tw_child_notes |-> tw_child_notes[i].title] = TitlesToConvert(file_dict, 1)

(***************************************************************************)
(* get_markdown_links                                                      *)
(***************************************************************************)
IsImage(element) == element.tag = "img"
IsLink(element) == element.tag = "a"

\* the images and the links a text holds, images first
OwnLinks(text, legacy) ==
    LET images == SelectSeq(text, IsImage)
        links == SelectSeq(text, IsLink)
    IN  [i \in DOMAIN images |-> MarkdownLink(images[i].text, images[i].url, TRUE)]
        \o [i \in DOMAIN links |->
              MarkdownLink(links[i].text,
                           IF legacy THEN legacy_url_with_title(links[i])
                           ELSE url_with_title(links[i]),
                           FALSE)]

\* C9: every call of either get_markdown_links, whatever was called before
\* it, returns exactly the images and links of its own text (for a blank
\* text or one without links: none).
C9_NoLeakAcrossCalls ==
    links_call # None =>
        /\ links_call[1].raised = None
        /\ links_call[1].links = OwnLinks(links_call[1].text, links_call[1].module = "common")

\* the first position from k on where "]]" begins, 0 if there is none
RECURSIVE FindClosing(_, _)
FindClosing(str, k) ==
    IF k + 1 > Len(str) THEN 0
    ELSE IF str[k] = "]" /\ str[k + 1] = "]" THEN k
    ELSE FindClosing(str, k + 1)

\* the tags a tag string denotes: its groups, separated by single spaces,
\* each a plain token or [[plain tokens with single spaces between]];
\* `ok` is FALSE for a string that is not made of such groups
RECURSIVE TagGroups(_)
TagGroups(str) ==
    LET bracketed == startswith_brackets(str)
        close == IF bracketed THEN FindClosing(str, 3) ELSE 0
        space == IF \E i \in DOMAIN str : str[i] = " "
                 THEN CHOOSE i \in DOMAIN str : str[i] = " " /\ \A j \in 1..(i - 1) : str[j] # " "
                 ELSE Len(str) + 1
        tag == IF bracketed THEN SubSeq(str, 3, close - 1) ELSE SubSeq(str, 1, space - 1)
        after == IF bracketed THEN close + 2 ELSE space
        rest == IF after > Len(str) THEN [ok |-> TRUE, tags |-> <<>>]
                ELSE IF str[after] = " " /\ after < Len(str)
                     THEN TagGroups(SubSeq(str, after + 1, Len(str)))
                     ELSE [ok |-> FALSE, tags |-> <<>>]
    IN  IF (bracketed /\ close = 0) \/ ~(IF bracketed THEN IsPlainTagString(tag) ELSE IsPlainToken(tag))
        THEN [ok |-> FALSE, tags |-> <<>>]
        ELSE [ok |-> rest.ok, tags |-> <<tag>> \o rest.tags]

\* C11: every group wrapped in [[...]], with spaces inside or a single token,
\* yields the one tag between its brackets, every token outside brackets
\* yields one tag, in input order; no tag is lost or merged with the next.
C11_EveryGroupYieldsItsTag ==
    (final_tags # None /\ tag_string # <<>> /\ TagGroups(tag_string).ok) =>
        final_tags[1] = TagGroups(tag_string).tags

(***************************************************************************)
(* get_inline_tags                                                         *)
(***************************************************************************)
\* the words of a text: its maximal runs of characters other than white space
WordsOf(text) ==
    { SubSeq(text, i, j) : <<i, j>> \in
        { p \in (DOMAIN text) \X (DOMAIN text) :
            /\ p[1] <= p[2]
            /\ \A k \in p[1]..p[2] : ~is_whitespace(text[k])
            /\ p[1] = 1 \/ is_whitespace(text[p[1] - 1])
            /\ p[2] = Len(text) \/ is_whitespace(text[p[2] + 1]) } }

\* C12: get_inline_tags returns exactly the distinct names, the marker
\* stripped, of the words that begin with a marker character and are not
\* made of marker characters only; "### h3" gives no tag, "#tag abc" gives
\* "tag".
C12_InlineTagsAreMarkedWords ==
    inline_tags # None =>
        /\ Range(inline_tags[1]) =
             { SubSeq(w, 2, Len(w)) : w \in
                 { v \in WordsOf(it_text) :
                     /\ v[1] \in start_characters
                     /\ \E i \in DOMAIN v : v[i] \notin start_characters } }
        /\ Cardinality(Range(inline_tags[1])) = Len(inline_tags[1])
        /\ (it_text = <<"#", "#", "#", " ", "h", "3">> /\ start_characters = {"#"}) =>
             inline_tags[1] = <<>>
        /\ (it_text = <<"#", "t", "a", "g", " ", "a", "b", "c">> /\ start_characters = {"#"}) =>
             inline_tags[1] = << <<"t", "a", "g">> >>

\* "## #a" with the marker "#" gave the one tag "a"
C12_Witness ==
    /\ it_text = <<"#", "#", " ", "#", "a">>
    /\ start_characters = {"#"}
    /\ inline_tags = Some(<< <<"a">> >>)

(***************************************************************************)
(* Synology Note Station: note titles                                      *)
(***************************************************************************)
\* the note of the manifest a stored note was made of
SourceOf(stored) == syn_notes[stored.original_id]

\* the stored title is the title of the note, as it is or disambiguated by
\* the HHMM suffix, the MM-DD-YYYY suffix (after the first 39 characters for
\* a long title), or both
OnlyKnownStrategies(stored) ==
    LET note == SourceOf(stored)
        date == <<" ">> \o strftime_mdY(note.created)
        time == <<" ">> \o strftime_HM(note.created)
    IN  \E base \in {note.title, prefix(note.title, 39)} :
            stored.title \in {note.title, note.title \o time, base \o date, base \o date \o time}

\* C13: when two notes under the same parent notebook share the first 50
\* characters of their title, the stored title of the second differs from
\* that of the first, and a stored title is only ever disambiguated by the
\* HHMM suffix and the MM-DD-YYYY suffix with truncation to 39 characters.
C13_SecondTitleDiffers ==
    \A parent_id \in DOMAIN syn_child_notes :
        LET child_notes == syn_child_notes[parent_id]
        IN  /\ \A i, j \in DOMAIN child_notes :
                  (/\ i < j
                   /\ prefix(SourceOf(child_notes[i]).title, 50)
                        = prefix(SourceOf(child_notes[j]).title, 50))
                  => child_notes[j].title # child_notes[i].title
            /\ \A i \in DOMAIN child_notes : OnlyKnownStrategies(child_notes[i])

\* a title shares its first 50 characters with one of the notes
Collides(title, child_notes) ==
    \E i \in DOMAIN child_notes : prefix(child_notes[i].title, 50) = prefix(title, 50)

\* C14 as stated: on a collision the created time is appended as HHMM; only
\* if the title still collides is it cut to 39 characters and given the
\* MM-DD-YYYY suffix instead, and checked once more (HHMM appended); a title
\* that does not collide is left unchanged.
C14_TimeThenDate ==
    \A parent_id \in DOMAIN syn_child_notes :
        \A j \in DOMAIN syn_child_notes[parent_id] :
            LET stored == syn_child_notes[parent_id][j]
                earlier == SubSeq(syn_child_notes[parent_id], 1, j - 1)
                note == SourceOf(stored)
                timed == note.title \o <<" ">> \o strftime_HM(note.created)
                dated == prefix(note.title, 39) \o <<" ">> \o strftime_mdY(note.created)
            IN  stored.title =
                    IF ~Collides(note.title, earlier) THEN note.title
                    ELSE IF ~Collides(timed, earlier) THEN timed
                    ELSE IF ~Collides(dated, earlier) THEN dated
                    ELSE dated \o <<" ">> \o strftime_HM(note.created)

\* C14, amended: on a collision the title, cut to 39 characters if it has 50
\* or more, gets the created date as MM-DD-YYYY; the check runs once more
\* and only if the dated title still collides is the created time appended
\* as HHMM, without a further check; a title that does not collide is left
\* unchanged.
C14_DateThenTime ==
    \A parent_id \in DOMAIN syn_child_notes :
        \A j \in DOMAIN syn_child_notes[parent_id] :
            LET stored == syn_child_notes[parent_id][j]
                earlier == SubSeq(syn_child_notes[parent_id], 1, j - 1)
                note == SourceOf(stored)
                base == IF Len(note.title) >= 50 THEN prefix(note.title, 39) ELSE note.title
                dated == base \o <<" ">> \o strftime_mdY(note.created)
            IN  stored.title =
                    IF ~Collides(note.title, earlier) THEN note.title
                    ELSE IF ~Collides(dated, earlier) THEN dated
                    ELSE dated \o <<" ">> \o strftime_HM(note.created)

\* three notes "n" of the same minute: the second got the date, the third
\* the date and the time
C14_Witness ==
    /\ Len(syn_child_notes["nb1"]) = 3
    /\ syn_child_notes["nb1"][1].title = <<"n">>
    /\ syn_child_notes["nb1"][2].title
         = <<"n", " ", "0", "1", "-", "0", "2", "-", "2", "0", "2", "4">>
    /\ syn_child_notes["nb1"][3].title
         = <<"n", " ", "0", "1", "-", "0", "2", "-", "2", "0", "2", "4", " ", "0", "5", "0", "6">>

(***************************************************************************)
(* The legacy entry point                                                  *)
(***************************************************************************)
\* the positions of an event in the log
PositionsOf(event) == {i \in DOMAIN main_log : main_log[i] = event}

\* C15: without --dry-run the connection is made before any conversion (a
\* failed connection: nothing is converted) and the note tree is imported
\* only after all inputs have been converted; with --dry-run there is no
\* connection and no import, and main ends with all inputs converted unless
\* a conversion raised.
C15_ConnectConvertImport ==
    /\ ~args_dry_run =>
         /\ \A i \in PositionsOf("converted") : \E j \in PositionsOf("get_api") : j < i
         /\ PositionsOf("get_api raised") # {} => PositionsOf("converted") = {}
         /\ \A i \in PositionsOf("import_notebook") :
              /\ Cardinality(PositionsOf("converted")) = Len(args_input)
              /\ \A j \in PositionsOf("converted") : j < i
    /\ args_dry_run =>
         /\ PositionsOf("get_api") = {} /\ PositionsOf("get_api raised") = {}
         /\ PositionsOf("import_notebook") = {}
         /\ main_pc = "done" => Cardinality(PositionsOf("converted")) = Len(args_input)

\* connected, converted two inputs, then imported
C15_Witness ==
    /\ ~args_dry_run
    /\ main_log = <<"get_api", "converted", "converted", "import_notebook">>

\* with --dry-run two inputs were converted and main returned
C15_WitnessDryRun ==
    /\ args_dry_run
    /\ main_pc = "done"
    /\ main_log = <<"converted", "converted">>

(***************************************************************************)
(* Converter.convert_json: the dispatch on the type of a tiddler           *)
(***************************************************************************)
\* the type is an image type other than SVG, application/pdf or audio/mp3
IsAttachmentType(type) ==
    /\ type # None
    /\ type[1] # Mime("image", "svg+xml")
    /\ type[1][1] = "image" \/ type[1] \in {Mime("application", "pdf"), Mime("audio", "mp3")}

\* the notes made of the tiddler at position i
NotesOfTiddler(i) ==
    {k \in DOMAIN tw_child_notes : file_dict[i].title = Some(tw_child_notes[k].title)}

TextOrEmpty(tiddler) == IF tiddler.text = None THEN "" ELSE tiddler.text[1]

\* C16: an image/svg+xml tiddler yields no note; for the other image types,
\* application/pdf and audio/mp3 the body comes from the first field present
\* of text (a resource file, one Resource), source (image link, no Resource)
\* and _canonical_uri (plain link, no Resource), and is the wiki-markup
\* rendering, with a warning, when none is; an application/json tiddler's
\* body is its text in a fenced code block; every other type is rendered by
\* the wiki-markup conversion.
C16_TypeDispatch ==
    \A i \in 1..(tiddler_index - 1) :
        LET tiddler == file_dict[i]
        IN  /\ tiddler.type = Some(Mime("image", "svg+xml")) => NotesOfTiddler(i) = {}
            /\ (\E k \in DOMAIN tw_warnings : tiddler.title = Some(tw_warnings[k])) <=>
                 /\ IsAttachmentType(tiddler.type)
                 /\ tiddler.text = None /\ tiddler.source = None /\ tiddler._canonical_uri = None
            /\ \A k \in NotesOfTiddler(i) :
                 LET note == tw_child_notes[k]
                 IN  CASE IsAttachmentType(tiddler.type) /\ tiddler.text # None ->
                            /\ Len(note.resources) = 1
                            /\ note.resources[1].filename \in Range(resource_folder)
                            /\ note.body = ImageLink(note.resources[1].filename,
                                                     note.resources[1].filename)
                       [] IsAttachmentType(tiddler.type) /\ tiddler.text = None
                            /\ tiddler.source # None ->
                            /\ note.resources = <<>>
                            /\ note.body = ImageLink(note.title, tiddler.source[1])
                       [] IsAttachmentType(tiddler.type) /\ tiddler.text = None
                            /\ tiddler.source = None /\ tiddler._canonical_uri # None ->
                            /\ note.resources = <<>>
                            /\ note.body = PlainLink(note.title, tiddler._canonical_uri[1])
                       [] tiddler.type = Some(Mime("application", "json")) ->
                            /\ note.resources = <<>>
                            /\ note.body = CodeBlock(TextOrEmpty(tiddler))
                       [] OTHER ->
                            /\ note.resources = <<>>
                            /\ note.body = wikitext_to_md(TextOrEmpty(tiddler))

\* a PDF with text became a note with one Resource, then a PNG with only a
\* source became an image link
C16_Witness ==
    /\ Len(tw_child_notes) = 2
    /\ file_dict[1].type = Some(Mime("application", "pdf"))
    /\ Len(tw_child_notes[1].resources) = 1
    /\ file_dict[2].type = Some(Mime("image", "png"))
    /\ tw_child_notes[2].body = ImageLink("t2", "source")

(***************************************************************************)
(* C17                                                                     *)
(***************************************************************************)
IsPageName(name) ==
    /\ Len(name) >= 4
    /\ name[Len(name) - 1] = "." /\ name[Len(name)] = "md"
    /\ \E i \in 1 .. (Len(name) - 2) : name[i] = " "

LastSpace(str) == CHOOSE i \in DOMAIN str : str[i] = " " /\ \A j \in DOMAIN str : j > i => str[j] # " "

\* the name up to its last space
TitleOfName(name) == SubSeq(name, 1, LastSpace(name) - 1)

\* what follows the last space of a name, less the ".md"
IdOfName(name) ==
    IF \E i \in DOMAIN name : name[i] = " "
    THEN SubSeq(name, LastSpace(name) + 1, Len(name) - 2)
    ELSE SubSeq(name, 1, Len(name) - 2)

TargetsMarkdown(element) ==
    /\ element.tag \in {"a", "img"}
    /\ element.url # <<>>
    /\ element.url[1] \notin {"http://", "https://", "mailto:"}
    /\ Len(element.url) >= 2
    /\ element.url[Len(element.url) - 1] = "." /\ element.url[Len(element.url)] = "md"

\* the ids the links of a page target, images first
TargetIds(lines) ==
    LET body == join_lines(SubSeq(lines, 3, Len(lines)))
        targets == SelectSeq(SelectSeq(body, IsImage) \o SelectSeq(body, IsLink), TargetsMarkdown)
    IN  [i \in DOMAIN targets |-> IdOfName(unquote(targets[i].url))]

NotionItemDone(i) ==
    \/ i < n_index
    \/ i = n_index /\ n_pc = "raised"

\* C17: every exported markdown file named "<title> <id>.md" becomes a note
\* whose title is the name up to the last space and whose original_id is what
\* follows the last space of the stem, and whose NoteLinks target, one for
\* each of its non-web, non-mail links to a target ending in .md, the part
\* after the last space of the unescaped target's stem.
C17_PagesBecomeNotesWithNoteLinks ==
    \A i \in DOMAIN n_items :
        (NotionItemDone(i) /\ n_items[i].kind = "file" /\ IsPageName(n_items[i].name)) =>
            /\ ~(i = n_index /\ n_pc = "raised")
            /\ \E k \in DOMAIN n_child_notes :
                  /\ n_child_notes[k].title = TitleOfName(n_items[i].name)
                  /\ n_child_notes[k].original_id = IdOfName(n_items[i].name)
                  /\ [j \in DOMAIN n_child_notes[k].note_links |->
                         n_child_notes[k].note_links[j].original_id] = TargetIds(n_items[i].lines)

(***************************************************************************)
(* C18                                                                     *)
(***************************************************************************)
\* what a reference has between its parentheses: the URL, then the title
ReferenceUrl(element) ==
    element.url \o (IF element.title # None THEN <<" \"", element.title[1], "\"">> ELSE <<>>)

\* the markdown of a reference
Reference(element) ==
    (IF IsImage(element) THEN <<"!">> ELSE <<>>)
        \o <<"[", element.text, "](">> \o ReferenceUrl(element) \o <<")">>

CountOf(seq, x) == Cardinality({i \in DOMAIN seq : seq[i] = x})

IsWebOrMail(element) ==
    element.url # <<>> /\ element.url[1] \in {"http://", "https://", "mailto:"}

\* the images and links of the body that are neither web nor mail links
LocalReferences ==
    LET own == SelectSeq(h_body, IsImage) \o SelectSeq(h_body, IsLink)
    IN  SelectSeq(own, LAMBDA e : ~IsWebOrMail(e))

\* the target of the reference is an image next to the file
TargetsSiblingImage(element) ==
    element.url \in DOMAIN h_siblings /\ h_siblings[element.url] = "image"

\* C19: of the links of a body that are neither web nor mail links, those to
\* an existing image next to the file are recorded as Resources and all the
\* others as NoteLinks keyed by the base name of the linked file; web and
\* mail links are recorded as neither.
C19_LinksAreClassified ==
    h_pc = "returned" =>
        LET to_images == SelectSeq(LocalReferences, TargetsSiblingImage)
            others == SelectSeq(LocalReferences, LAMBDA e : ~TargetsSiblingImage(e))
        IN  /\ [i \in DOMAIN h_resources |-> h_resources[i].filename]
                 = [i \in DOMAIN to_images |-> to_images[i].url]
            /\ [i \in DOMAIN h_note_links |-> h_note_links[i].original_id]
                 = [i \in DOMAIN others |-> stem(others[i].url)]

(***************************************************************************)
(* C20                                                                     *)
(***************************************************************************)
IsPrefix(p, q) == Len(p) <= Len(q) /\ SubSeq(q, 1, Len(p)) = p

ParentPath(path) == SubSeq(path, 1, Len(path) - 1)

NameIndex(name) == CHOOSE i \in DOMAIN NameOrder : NameOrder[i] = name

\* the folder of the input at a path
RECURSIVE Descend(_, _, _)
Descend(folder, path, k) ==
    IF k > Len(path) THEN folder
    ELSE Descend(CHOOSE e \in folder.entries : e.name = path[k], path, k + 1)

FolderAt(path) == Descend(w_input, path, 2)

FileNamesOf(folder) == {e.name : e \in {x \in folder.entries : x.kind = "file"}}

\* C20: when a sub-folder of a folder is entered, every file of the folder
\* has been processed, in sorted order, and none is processed after; between
\* entering a folder and leaving it everything done is below that folder, and
\* nothing below it is done after; so no note is appended to a folder's
\* notebook after a child notebook was appended to it.
C20_FilesFirstThenDepthFirst ==
    \A i \in DOMAIN w_events :
        LET a == w_events[i]
        IN  /\ (a.kind = "enter" /\ Len(a.path) > 1) =>
                  {w_events[h].name :
                      h \in {g \in 1 .. (i - 1) : /\ w_events[g].kind = "file"
                                                  /\ w_events[g].path = ParentPath(a.path)}}
                      = FileNamesOf(FolderAt(ParentPath(a.path)))
            /\ \A j \in DOMAIN w_events :
                  i < j =>
                      LET b == w_events[j]
                          left == \E l \in (i + 1) .. (j - 1) :
                                      w_events[l].kind = "leave" /\ w_events[l].path = a.path
                      IN  /\ ~(/\ a.kind = "enter" /\ Len(a.path) > 1
                               /\ b.kind = "file" /\ b.path = ParentPath(a.path))
                          /\ (a.kind = "file" /\ b.kind = "file" /\ a.path = b.path) =>
                                NameIndex(a.name) < NameIndex(b.name)
                          /\ (a.kind = "enter" /\ b.kind = "enter" /\ Len(a.path) > 1
                              /\ Len(b.path) > 1 /\ ParentPath(a.path) = ParentPath(b.path)) =>
                                NameIndex(a.name) < NameIndex(b.name)
                          /\ a.kind = "enter" => (IsPrefix(a.path, b.path) <=> ~left)
                          /\ ~(/\ a.kind = "leave" /\ Len(a.path) > 1
                               /\ b.kind = "file" /\ b.appended /\ b.path = ParentPath(a.path))

\* a folder with a note of its own, whose name sorts before a file next to
\* it, was walked
C20_Witness ==
    /\ w_pc = "done"
    /\ \E i, j, k \in DOMAIN w_events :
          /\ i < j /\ j < k
          /\ w_events[i].kind = "file" /\ w_events[i].appended
          /\ w_events[i].path = <<<<"notes">>>> /\ w_events[i].name = <<"z", ".", "txt">>
          /\ w_events[j].kind = "enter" /\ w_events[j].path = <<<<"notes">>, <<"m">>>>
          /\ w_events[k].kind = "file" /\ w_events[k].appended
          /\ w_events[k].path = <<<<"notes">>, <<"m">>>>

(***************************************************************************)
(* C21                                                                     *)
(***************************************************************************)
\* C21: every call that allocates a temporary directory yields a path that
\* no earlier call of the run has yielded, so that an extracted archive and
\* a resource folder never share a directory.
C21_TempFoldersAreFresh ==
    \A i, j \in DOMAIN t_calls : i < j => t_calls[i].path # t_calls[j].path

(***************************************************************************)
(* C25                                                                     *)
(***************************************************************************)
\* C25: whatever notes were converted into a parent notebook, no two notes
\* stored in it have titles with the same first 50 characters.
C25_StoredTitlesAreUnique ==
    \A parent_id \in DOMAIN syn_child_notes :
        \A i, j \in DOMAIN syn_child_notes[parent_id] :
            i # j => prefix(syn_child_notes[parent_id][i].title, max_name_length)
                       # prefix(syn_child_notes[parent_id][j].title, max_name_length)

(***************************************************************************)
(* C29                                                                     *)
(***************************************************************************)
WithoutChildren(nb) == [nb EXCEPT !.child_notebooks = <<>>]

\* where a title stands in a sequence of titles
PositionIn(titles, title) == CHOOSE i \in DOMAIN titles : titles[i] = title

\* C29: remove_empty_notebooks changes child_notebooks lists only: every
\* notebook left is, but for that list, the notebook it was, with the same
\* notes in the same order; the notebooks left under a notebook stand in the
\* order they had; the tree holds as many notes as before; the root is kept,
\* empty or not; and a second application changes nothing.
C29_OnlyChildNotebooksChange ==
    prune_pc = "pruned" =>
        /\ WithoutChildren(root_notebook) = WithoutChildren(tree0)
        /\ \A nb \in Descendants(root_notebook) \cup {root_notebook} :
              LET old == NotebookAt(tree0, nb.title)
              IN  /\ WithoutChildren(nb) = WithoutChildren(old)
                  /\ \A i, j \in DOMAIN nb.child_notebooks :
                        i < j => PositionIn(ChildTitles(old), nb.child_notebooks[i].title)
                                   < PositionIn(ChildTitles(old), nb.child_notebooks[j].title)
        /\ NoteCount(root_notebook) = NoteCount(tree0)
        /\ remove_empty_notebooks(root_notebook) = root_notebook

\* a tree that lost a notebook between two that stayed, one of them with two
\* notes
C29_Witness ==
    /\ prune_pc = "pruned"
    /\ root_notebook # tree0
    /\ Len(tree0.child_notebooks) = 3
    /\ Len(root_notebook.child_notebooks) = 2
    /\ root_notebook.child_notebooks[1].title = tree0.child_notebooks[1].title
    /\ root_notebook.child_notebooks[2].title = tree0.child_notebooks[3].title
    /\ Len(root_notebook.child_notebooks[2].child_notes) = 2

(***************************************************************************)
(* C24                                                                     *)
(***************************************************************************)
\* the tiddler carries a tag that begins with "$:/tags/"
CarriesSpecialTag(tiddler) ==
    /\ tiddler.tags # None
    /\ tiddler.tags[1] # <<>>
    /\ LET groups == TagGroups(tiddler.tags[1])
       IN  groups.ok /\ \E k \in DOMAIN groups.tags : startswith_special(groups.tags[k])

\* C24: of the tiddlers gone through, those that carry a tag beginning with
\* "$:/tags/" and the image/svg+xml ones are not among the notes of the
\* root notebook, and all the others are, in the order of the file.
C24_SpecialTiddlersAreSkipped ==
    LET done == SubSeq(file_dict, 1, tiddler_index - 1)
        IsAppended(tiddler) ==
            ~CarriesSpecialTag(tiddler) /\ tiddler.type # Some(Mime("image", "svg+xml"))
        expected == SelectSeq(done, IsAppended)
    IN  [k \in DOMAIN tw_child_notes |-> Some(tw_child_notes[k].title)]
            = [k \in DOMAIN expected |-> expected[k].title]

(***************************************************************************)
(* C22: the NoteLink of every notestation:// link targets the id of the    *)
(* manifest whose title has the highest similarity ratio to the text of    *)
(* the link, and of several ids with the highest ratio the first one.      *)
(***************************************************************************)
RatioTo(text, id) == ratio(text, sl_manifest[id].title)

C22_BestMatchIsFirstMaximum ==
    \A n \in DOMAIN sl_notes :
        \A l \in DOMAIN sl_notes[n].note_links :
            LET link == sl_notes[n].note_links[l]
            IN  /\ link.original_id \in DOMAIN sl_manifest
                /\ \A id \in DOMAIN sl_manifest :
                       ~greater(RatioTo(link.text, id), RatioTo(link.text, link.original_id))
                /\ \A id \in 1 .. (link.original_id - 1) :
                       greater(RatioTo(link.text, link.original_id), RatioTo(link.text, id))

\* a link whose best ratio is shared by two titles, the first of them not
\* being the first note of the manifest
C22_Witness ==
    \E n \in DOMAIN sl_notes :
        \E l \in DOMAIN sl_notes[n].note_links :
            LET link == sl_notes[n].note_links[l]
            IN  /\ link.original_id > 1
                /\ \E id \in (link.original_id + 1) .. Len(sl_manifest) :
                       RatioTo(link.text, id).num * RatioTo(link.text, link.original_id).den
                           = RatioTo(link.text, link.original_id).num * RatioTo(link.text, id).den

(***************************************************************************)
(* C27: once convert has gone through the manifest, the target of every    *)
(* NoteLink is the original_id of a note that was appended to a notebook.  *)
(***************************************************************************)
StoredIds == { sl_notes[n].original_id : n \in DOMAIN sl_notes }

C27_NoteLinksTargetStoredNotes ==
    sl_index > Len(sl_manifest) =>
        \A n \in DOMAIN sl_notes :
            \A l \in DOMAIN sl_notes[n].note_links :
                sl_notes[n].note_links[l].original_id \in StoredIds

(***************************************************************************)
(* C23: a link that is neither a web link, a mail link nor a               *)
(* notestation:// link becomes a resource exactly when one file of         *)
(* available_resources has its URL among its refs; with no such file or    *)
(* several the link is logged and adds neither a Resource nor a NoteLink.  *)
(***************************************************************************)
LastNote == sa_root[Len(sa_root)]

IsRefLink(link) ==
    ~is_web_link(link) /\ ~is_mail_link(link) /\ ~startswith_notestation(link.url)

RefLinksOf(note) == { l \in DOMAIN note.links : IsRefLink(note.links[l]) }

\* the number of files that have the url among their refs
MatchCount(url) ==
    Cardinality({ i \in DOMAIN sa_available : url \in Range(sa_available[i].refs) })

ResourcesFor(note, link) ==
    { r \in DOMAIN note.resources : note.resources[r].original_text = Some(link_str(link)) }

C23_RefLinksNeedOneMatch ==
    sa_root # <<>> =>
        \A l \in RefLinksOf(LastNote) :
            LET link == LastNote.links[l]
                logged == \E e \in Range(sa_logged) : e[1] = link_str(link)
            IN  /\ ResourcesFor(LastNote, link) # {} <=> MatchCount(link.url) = 1
                /\ logged <=> MatchCount(link.url) # 1
                /\ logged => <<link_str(link), MatchCount(link.url)>> \in Range(sa_logged)
                /\ \A n \in DOMAIN LastNote.note_links :
                       LastNote.note_links[n].original_text # link_str(link)

\* a link dropped for two matches, after a link of an earlier input was resolved
C23_Witness ==
    /\ sa_root # <<>>
    /\ \E l \in RefLinksOf(LastNote) :
           /\ MatchCount(LastNote.links[l].url) = 2
           /\ ResourcesFor(LastNote, LastNote.links[l]) = {}
    /\ \E i \in DOMAIN sa_notebooks :
           \E n \in DOMAIN sa_notebooks[i] :
               \E l \in RefLinksOf(sa_notebooks[i][n]) :
                   ResourcesFor(sa_notebooks[i][n], sa_notebooks[i][n].links[l]) # {}

(***************************************************************************)
(* C26: a link that resolves to one file adds one Resource to its note,    *)
(* however often that file has been referenced.                            *)
(***************************************************************************)
C26_OneResourcePerResolvedLink ==
    sa_root # <<>> =>
        \A l \in RefLinksOf(LastNote) :
            MatchCount(LastNote.links[l].url) = 1 =>
                Cardinality(ResourcesFor(LastNote, LastNote.links[l])) = 1

(***************************************************************************)
(* C28: the root notebook of an input is the one that a converter which    *)
(* converts only this input produces.                                      *)
(***************************************************************************)
RECURSIVE notes_converted_alone(_, _, _, _)
notes_converted_alone(input, k, available, notes) ==
    IF k > Len(input.notes) THEN notes
    ELSE LET done == syn_convert_note(available, input.notes[k], k, syn_id_title_map(input))
         IN  notes_converted_alone(input, k + 1, done.available, Append(notes, done.note))

ConvertedAlone(i) ==
    notes_converted_alone(sa_inputs[i], 1, files_of_input(sa_inputs[i], i), <<>>)

C28_InputsAreIndependent ==
    \A i \in DOMAIN sa_notebooks : sa_notebooks[i] = ConvertedAlone(i)

=============================================================================
